---- MODULE Spec2Model ----
(***************************************************************************)
(* A model of httpproxyfailover's Proxy (src/proxy.go, lines 1-318): the   *)
(* CONNECT handler that resolves the applicable backends of a request,     *)
(* tries them in order and splices the client to the first one that        *)
(* answers 2xx (and passes the TLS handshake check when it is configured). *)
(* The tunnel is modelled byte by byte: the two copies of pipe and the far *)
(* ends of the two connections take their steps in any order.              *)
(* Requests are served one after another on the same Proxy; LiveSpec adds  *)
(* the fair scheduling of the goroutines of pipe.                          *)
(*                                                                         *)
(* Two parts of the Proxy are not in src/proxy.go and follow the           *)
(* specification: the favicon check that runs after the TLS handshake      *)
(* check (CheckFavicon), and the call of p.OnDisconnect when the tunnel    *)
(* has ended.                                                              *)
(*                                                                         *)
(* Text (header values, backend URIs, credentials) is modelled as          *)
(* sequences of byte values, so that prefix tests, base64, the parameter   *)
(* list and the URI templates are computed the way the code computes them. *)
(*                                                                         *)
(* The operators on text bind no name that is also a variable of the       *)
(* module (m, x, pre, req, ts, bs stand for the code's i, b, p, r, ...):   *)
(* TLC evaluates a constant definition once only if none of the names it   *)
(* meets is a variable's.                                                  *)
(***************************************************************************)
EXTENDS Integers, Sequences, FiniteSets, TLC

(***************************************************************************)
(* Bytes and strings                                                       *)
(***************************************************************************)

\* The printable ASCII characters 32..126 in order. The three characters
\* that cannot be written in a TLA+ string (34, 92 and 96) are held by a
\* space; Ord takes the first position of a character, so they are never hit.
Ascii == " ! #$%&'()*+,-./0123456789:;<=>?@ABCDEFGHIJKLMNOPQRSTUVWXYZ[ ]^_ abcdefghijklmnopqrstuvwxyz{|}~"

Ord(c) ==
    31 + (CHOOSE m \in 1..Len(Ascii) :
            /\ SubSeq(Ascii, m, m) = c
            /\ \A j \in 1..(m - 1) : SubSeq(Ascii, j, j) # c)

\* The bytes of a string literal.
Str(s) == [m \in 1..Len(s) |-> Ord(SubSeq(s, m, m))]

\* Bytes the code names.
Colon == Ord(":")
Comma == Ord(",")
Equals == Ord("=")
LBrace == Ord("{")
RBrace == Ord("}")
Percent == Ord("%")
At == Ord("@")
Slash == Ord("/")
Question == Ord("?")
Hash == Ord("#")
Underscore == Ord("_")

\* A pointer or slice that may be nil.
NilPtr == [nil |-> TRUE, v |-> <<>>]
Ptr(v) == [nil |-> FALSE, v |-> v]

\* s[from:] and s[:to] of Go, on 1-based sequences.
Drop(s, n) == SubSeq(s, n + 1, Len(s))
Take(s, n) == SubSeq(s, 1, n)

\* strings.HasPrefix
HasPrefix(s, pre) == Len(s) >= Len(pre) /\ Take(s, Len(pre)) = pre

\* strings.IndexRune / IndexByte for an ASCII byte: the 0-based index of the
\* first c in s, -1 when there is none.
IndexByte(s, c) ==
    IF \E m \in 1..Len(s) : s[m] = c
    THEN (CHOOSE m \in 1..Len(s) : s[m] = c /\ \A j \in 1..(m - 1) : s[j] # c) - 1
    ELSE -1

\* strings.LastIndexByte
LastIndexByte(s, c) ==
    IF \E m \in 1..Len(s) : s[m] = c
    THEN (CHOOSE m \in 1..Len(s) : s[m] = c /\ \A j \in (m + 1)..Len(s) : s[j] # c) - 1
    ELSE -1

\* Simple case folding of one ASCII byte (A-Z onto a-z).
FoldByte(x) == IF x >= 65 /\ x <= 90 THEN x + 32 ELSE x

\* strings.EqualFold on ASCII text.
EqualFold(s, t) ==
    /\ Len(s) = Len(t)
    /\ \A m \in 1..Len(s) : FoldByte(s[m]) = FoldByte(t[m])

\* strings.Split(s, sep) for a one-byte separator: always at least one piece.
RECURSIVE Split(_, _)
Split(s, sep) ==
    LET m == IndexByte(s, sep)
    IN  IF m < 0 THEN <<s>>
        ELSE <<Take(s, m)>> \o Split(Drop(s, m + 1), sep)

\* strings.SplitN(s, sep, 2): split at the first separator only.
SplitN2(s, sep) ==
    LET m == IndexByte(s, sep)
    IN  IF m < 0 THEN <<s>> ELSE <<Take(s, m), Drop(s, m + 1)>>

(***************************************************************************)
(* encoding/base64, StdEncoding                                            *)
(***************************************************************************)

B64Alphabet == Str("ABCDEFGHIJKLMNOPQRSTUVWXYZabcdefghijklmnopqrstuvwxyz0123456789+/")

B64Pad == Equals

\* The 6-bit value of an alphabet character, -1 for any other byte.
B64Index(c) == IndexByte(B64Alphabet, c)

\* The decoder skips '\r' and '\n' wherever they stand.
RECURSIVE B64StripNewlines(_)
B64StripNewlines(s) ==
    IF s = <<>> THEN <<>>
    ELSE IF s[1] \in {10, 13} THEN B64StripNewlines(Tail(s))
    ELSE <<s[1]>> \o B64StripNewlines(Tail(s))

\* One quantum of four characters. Padding may only end the input: "xx=="
\* gives one byte, "xxx=" two. The unused low bits are not checked (the
\* encoding is not strict).
RECURSIVE B64DecodeQuanta(_)
B64DecodeQuanta(s) ==
    IF s = <<>> THEN [err |-> FALSE, out |-> <<>>]
    ELSE IF Len(s) < 4 THEN [err |-> TRUE, out |-> <<>>]
    ELSE
      LET a == B64Index(s[1])
          x == B64Index(s[2])
          c == B64Index(s[3])
          d == B64Index(s[4])
          last == Len(s) = 4
      IN  IF a < 0 \/ x < 0 THEN [err |-> TRUE, out |-> <<>>]
          ELSE IF s[3] = B64Pad THEN
              IF s[4] = B64Pad /\ last
              THEN [err |-> FALSE, out |-> <<(a * 4) + (x \div 16)>>]
              ELSE [err |-> TRUE, out |-> <<>>]
          ELSE IF c < 0 THEN [err |-> TRUE, out |-> <<>>]
          ELSE IF s[4] = B64Pad THEN
              IF last
              THEN [err |-> FALSE,
                    out |-> <<(a * 4) + (x \div 16),
                              ((x % 16) * 16) + (c \div 4)>>]
              ELSE [err |-> TRUE, out |-> <<>>]
          ELSE IF d < 0 THEN [err |-> TRUE, out |-> <<>>]
          ELSE
              LET rest == B64DecodeQuanta(Drop(s, 4))
              IN  IF rest.err THEN rest
                  ELSE [err |-> FALSE,
                        out |-> <<(a * 4) + (x \div 16),
                                  ((x % 16) * 16) + (c \div 4),
                                  ((c % 4) * 64) + d>> \o rest.out]

\* base64.StdEncoding.DecodeString
B64Decode(s) == B64DecodeQuanta(B64StripNewlines(s))

\* base64.StdEncoding.EncodeToString
RECURSIVE B64Encode(_)
B64Encode(s) ==
    LET ch(v) == B64Alphabet[v + 1]
    IN  IF s = <<>> THEN <<>>
        ELSE IF Len(s) = 1 THEN
            <<ch(s[1] \div 4), ch((s[1] % 4) * 16), B64Pad, B64Pad>>
        ELSE IF Len(s) = 2 THEN
            <<ch(s[1] \div 4), ch(((s[1] % 4) * 16) + (s[2] \div 16)),
              ch((s[2] % 16) * 4), B64Pad>>
        ELSE
            <<ch(s[1] \div 4), ch(((s[1] % 4) * 16) + (s[2] \div 16)),
              ch(((s[2] % 16) * 4) + (s[3] \div 64)), ch(s[3] % 64)>>
            \o B64Encode(Drop(s, 3))

(***************************************************************************)
(* params: the template variables of a request (src/proxy.go 148-178)      *)
(***************************************************************************)

\* const prefix = "Basic "
BasicPrefix == Str("Basic ")

\* uritemplate.Values as a function from names to string values; the nil
\* map and the empty map are both the empty function.
NoValues == <<>>

\* values.Set(name, value): a later pair of the same name replaces the earlier.
ValuesSet(values, k, v) ==
    [n \in (DOMAIN values) \cup {k} |-> IF n = k THEN v ELSE values[n]]

\* The loop over strings.Split(ps, ","): a pair without '=' gets the value "".
RECURSIVE ParamPairs(_, _)
ParamPairs(pairs, values) ==
    IF pairs = <<>> THEN values
    ELSE LET kv == SplitN2(pairs[1], Equals)
             k  == kv[1]
             v  == IF Len(kv) = 1 THEN <<>> ELSE kv[2]
         IN  ParamPairs(Tail(pairs), ValuesSet(values, k, v))

\* r.Header.Get(name): "" when the request has no such header. A header
\* map is a function from header names to values.
HeaderGet(header, name) ==
    IF name \in DOMAIN header THEN header[name] ELSE <<>>

\* Variant: a value that is no base64 counts as no parameters at all.
ParamsIgnoringDecodeError(header) ==
    LET a == HeaderGet(header, "Proxy-Authorization")
    IN  IF Len(a) < Len(BasicPrefix)
           \/ ~EqualFold(Take(a, Len(BasicPrefix)), BasicPrefix)
        THEN [err |-> FALSE, values |-> NoValues]
        ELSE
          LET dec == B64Decode(Drop(a, Len(BasicPrefix)))
              m   == IndexByte(dec.out, Colon)
              ps  == IF m >= 0 THEN Take(dec.out, m) ELSE dec.out
          IN  IF dec.err THEN [err |-> FALSE, values |-> NoValues]
              ELSE [err |-> FALSE,
                    values |-> ParamPairs(Split(ps, Comma), NoValues)]

\* Variant: a header that is absent or of another scheme is an error.
ParamsRequiringBasic(header) ==
    LET a == HeaderGet(header, "Proxy-Authorization")
    IN  IF Len(a) < Len(BasicPrefix)
           \/ ~EqualFold(Take(a, Len(BasicPrefix)), BasicPrefix)
        THEN [err |-> TRUE, values |-> NoValues]
        ELSE
          LET dec == B64Decode(Drop(a, Len(BasicPrefix)))
              m   == IndexByte(dec.out, Colon)
              ps  == IF m >= 0 THEN Take(dec.out, m) ELSE dec.out
          IN  IF dec.err THEN [err |-> TRUE, values |-> NoValues]
              ELSE [err |-> FALSE,
                    values |-> ParamPairs(Split(ps, Comma), NoValues)]

\* Variant: the pairs are taken from all of the payload, password and all.
ParamsWithPassword(header) ==
    LET a == HeaderGet(header, "Proxy-Authorization")
    IN  IF Len(a) < Len(BasicPrefix)
           \/ ~EqualFold(Take(a, Len(BasicPrefix)), BasicPrefix)
        THEN [err |-> FALSE, values |-> NoValues]
        ELSE
          LET dec == B64Decode(Drop(a, Len(BasicPrefix)))
          IN  IF dec.err THEN [err |-> TRUE, values |-> NoValues]
              ELSE [err |-> FALSE,
                    values |-> ParamPairs(Split(dec.out, Comma), NoValues)]

\* params(r), on the headers of the request (src/proxy.go 148-178).
Params(header) ==
    LET a == HeaderGet(header, "Proxy-Authorization")
    IN  IF Len(a) < Len(BasicPrefix)
           \/ ~EqualFold(Take(a, Len(BasicPrefix)), BasicPrefix)
        THEN [err |-> FALSE, values |-> NoValues]
        ELSE
          LET dec == B64Decode(Drop(a, Len(BasicPrefix)))
              m   == IndexByte(dec.out, Colon)
              ps  == IF m >= 0 THEN Take(dec.out, m) ELSE dec.out
          IN  IF dec.err THEN [err |-> TRUE, values |-> NoValues]
              ELSE [err |-> FALSE,
                    values |-> ParamPairs(Split(ps, Comma), NoValues)]

(***************************************************************************)
(* URI templates (github.com/yosida95/uritemplate/v3), level 1: literals   *)
(* and {name} / {name,name} expressions. Operators and modifiers are not   *)
(* modelled; a template that uses one does not parse here.                 *)
(***************************************************************************)

IsAlnum(x) ==
    \/ x >= 48 /\ x <= 57
    \/ x >= 65 /\ x <= 90
    \/ x >= 97 /\ x <= 122

\* varchar: ALPHA / DIGIT / "_"
IsVarChar(x) == IsAlnum(x) \/ x = Underscore

\* unreserved: ALPHA / DIGIT / "-" / "." / "_" / "~"
UnreservedMarks == {Ord("-"), Ord("."), Underscore, Ord("~")}

IsUnreserved(x) == IsAlnum(x) \/ x \in UnreservedMarks

Lit(text) == [kind |-> "lit", text |-> text, names |-> <<>>]
Expr(names) == [kind |-> "expr", text |-> <<>>, names |-> names]

\* uritemplate.New: the parts of a template, or an error for an unclosed or
\* empty expression, a name with a character that is no varchar, or a '}'
\* outside an expression.
RECURSIVE ParseTemplate(_)
ParseTemplate(x) ==
    LET open == IndexByte(x, LBrace)
    IN  IF x = <<>> THEN [err |-> FALSE, parts |-> <<>>]
        ELSE IF open < 0 THEN
            IF IndexByte(x, RBrace) >= 0
            THEN [err |-> TRUE, parts |-> <<>>]
            ELSE [err |-> FALSE, parts |-> <<Lit(x)>>]
        ELSE IF open > 0 THEN
            LET rest == ParseTemplate(Drop(x, open))
            IN  IF rest.err \/ IndexByte(Take(x, open), RBrace) >= 0
                THEN [err |-> TRUE, parts |-> <<>>]
                ELSE [err |-> FALSE, parts |-> <<Lit(Take(x, open))>> \o rest.parts]
        ELSE
            LET close == IndexByte(x, RBrace)
                names == IF close < 0 THEN <<>>
                         ELSE Split(SubSeq(x, 2, close), Comma)
                rest  == IF close < 0 THEN [err |-> TRUE, parts |-> <<>>]
                         ELSE ParseTemplate(Drop(x, close + 1))
                ok    == \A m \in 1..Len(names) :
                            /\ names[m] # <<>>
                            /\ \A j \in 1..Len(names[m]) : IsVarChar(names[m][j])
            IN  IF close < 0 \/ ~ok \/ rest.err
                THEN [err |-> TRUE, parts |-> <<>>]
                ELSE [err |-> FALSE, parts |-> <<Expr(names)>> \o rest.parts]

\* t.Varnames(): the names the template refers to, in order of appearance.
RECURSIVE Varnames(_)
Varnames(parts) ==
    IF parts = <<>> THEN <<>>
    ELSE parts[1].names \o Varnames(Tail(parts))

HexDigits == Str("0123456789ABCDEF")

\* A value as it is, with no byte escaped.
EscapeValueRaw(v) == [err |-> FALSE, out |-> v]

\* Simple string expansion keeps the unreserved characters and
\* percent-encodes every other byte; a value that is not valid UTF-8 (here:
\* any byte from 128 up that does not start a well-formed two-byte sequence)
\* is an error.
RECURSIVE EscapeValue(_)
EscapeValue(v) ==
    LET pct(x) == <<Percent, HexDigits[(x \div 16) + 1], HexDigits[(x % 16) + 1]>>
    IN  IF v = <<>> THEN [err |-> FALSE, out |-> <<>>]
        ELSE IF v[1] < 128 THEN
            LET rest == EscapeValue(Tail(v))
            IN  IF rest.err THEN rest
                ELSE [err |-> FALSE,
                      out |-> (IF IsUnreserved(v[1]) THEN <<v[1]>> ELSE pct(v[1]))
                              \o rest.out]
        ELSE IF /\ v[1] >= 194 /\ v[1] <= 223
                /\ Len(v) >= 2 /\ v[2] >= 128 /\ v[2] <= 191 THEN
            LET rest == EscapeValue(Drop(v, 2))
            IN  IF rest.err THEN rest
                ELSE [err |-> FALSE, out |-> pct(v[1]) \o pct(v[2]) \o rest.out]
        ELSE [err |-> TRUE, out |-> <<>>]

\* One expression: the defined variables, escaped and joined by ','.
RECURSIVE ExpandNames(_, _, _)
ExpandNames(names, values, first) ==
    IF names = <<>> THEN [err |-> FALSE, out |-> <<>>]
    ELSE IF names[1] \notin DOMAIN values THEN ExpandNames(Tail(names), values, first)
    ELSE LET e    == EscapeValue(values[names[1]])
             rest == ExpandNames(Tail(names), values, FALSE)
         IN  IF e.err THEN e
             ELSE IF rest.err THEN rest
             ELSE [err |-> FALSE,
                   out |-> (IF first THEN <<>> ELSE <<Comma>>) \o e.out \o rest.out]

\* t.Expand(values)
RECURSIVE Expand(_, _)
Expand(parts, values) ==
    IF parts = <<>> THEN [err |-> FALSE, out |-> <<>>]
    ELSE LET head == IF parts[1].kind = "lit"
                     THEN [err |-> FALSE, out |-> parts[1].text]
                     ELSE ExpandNames(parts[1].names, values, TRUE)
             rest == Expand(Tail(parts), values)
         IN  IF head.err THEN head
             ELSE IF rest.err THEN rest
             ELSE [err |-> FALSE, out |-> head.out \o rest.out]

(***************************************************************************)
(* applicableBackends (src/proxy.go 115-146)                               *)
(***************************************************************************)

\* Variant: a template is applicable if every key of the map is one of its
\* names.
applicableToAllKeys(parts, values) ==
    \A name \in DOMAIN values :
        \E m \in 1..Len(Varnames(parts)) : Varnames(parts)[m] = name

\* Variant: one variable of the template among the parameters is enough.
applicableAny(parts, values) ==
    \E m \in 1..Len(Varnames(parts)) : Varnames(parts)[m] \in DOMAIN values

\* applicable(t, values): every name of the template is a key of the map.
applicable(parts, values) ==
    \A m \in 1..Len(Varnames(parts)) : Varnames(parts)[m] \in DOMAIN values

RECURSIVE ApplicableLoopReversed(_, _)

\* Variant: the loop puts each backend in front of those it has.
ApplicableLoopReversed(ts, values) ==
    IF ts = <<>> THEN <<>>
    ELSE LET t    == ts[1]
             x    == Expand(t, values)
             rest == ApplicableLoopReversed(Tail(ts), values)
         IN  IF ~applicable(t, values) THEN rest
             ELSE IF x.err THEN rest
             ELSE rest \o <<x.out>>

RECURSIVE ApplicableLoopStopsAtError(_, _)

\* Variant: the loop ends at a template that does not expand, with the
\* backends it has so far.
ApplicableLoopStopsAtError(ts, values) ==
    IF ts = <<>> THEN <<>>
    ELSE LET t    == ts[1]
             x    == Expand(t, values)
         IN  IF ~applicable(t, values)
             THEN ApplicableLoopStopsAtError(Tail(ts), values)
             ELSE IF x.err THEN <<>>
             ELSE <<x.out>> \o ApplicableLoopStopsAtError(Tail(ts), values)

\* The loop of applicableBackends over the parsed templates: a template
\* that is not applicable or does not expand is skipped.
RECURSIVE ApplicableLoop(_, _)
ApplicableLoop(ts, values) ==
    IF ts = <<>> THEN <<>>
    ELSE LET t    == ts[1]
             x    == Expand(t, values)
             rest == ApplicableLoop(Tail(ts), values)
         IN  IF ~applicable(t, values) THEN rest
             ELSE IF x.err THEN rest
             ELSE <<x.out>> \o rest

\* p.applicableBackends(r): without parsed templates the backends as they
\* are, and the header is not looked at.
applicableBackends(bs, parsed, header) ==
    IF parsed.nil THEN [err |-> FALSE, backends |-> bs]
    ELSE LET pre == Params(header)
         IN  IF pre.err THEN [err |-> TRUE, backends |-> <<>>]
             ELSE [err |-> FALSE, backends |-> ApplicableLoop(parsed.v, pre.values)]

\* EnableTemplates that, at a backend that does not parse, returns the
\* error and keeps the templates parsed before it.
EnableTemplatesKeepsParsed(bs) ==
    IF \E m \in 1..Len(bs) : ParseTemplate(bs[m]).err
    THEN LET bad == CHOOSE m \in 1..Len(bs) :
                       /\ ParseTemplate(bs[m]).err
                       /\ \A j \in 1..(m - 1) : ~ParseTemplate(bs[j]).err
         IN  [err |-> TRUE,
              parsed |-> Ptr([m \in 1..(bad - 1) |-> ParseTemplate(bs[m]).parts])]
    ELSE [err |-> FALSE,
          parsed |-> Ptr([m \in 1..Len(bs) |-> ParseTemplate(bs[m]).parts])]

\* EnableTemplates (src/proxy.go 62-73): all the backends parsed, or the
\* error of the first that does not parse and no parsed templates.
EnableTemplatesResult(bs) ==
    IF \E m \in 1..Len(bs) : ParseTemplate(bs[m]).err
    THEN [err |-> TRUE, parsed |-> NilPtr]
    ELSE [err |-> FALSE,
          parsed |-> Ptr([m \in 1..Len(bs) |-> ParseTemplate(bs[m]).parts])]

(***************************************************************************)
(* urlParse (src/proxy.go 180-185) and net/url.Parse                       *)
(***************************************************************************)

HttpPrefix == Str("http://")

IsDigit(x) == x >= 48 /\ x <= 57
IsHex(x) == IsDigit(x) \/ (x >= 65 /\ x <= 70) \/ (x >= 97 /\ x <= 102)
HexVal(x) == IF IsDigit(x) THEN x - 48 ELSE IF x >= 97 THEN x - 87 ELSE x - 55

\* The first of the bytes of cs in s (0-based), Len(s) when there is none.
FirstOf(s, cs) ==
    IF \E m \in 1..Len(s) : s[m] \in cs
    THEN (CHOOSE m \in 1..Len(s) : s[m] \in cs /\ \A j \in 1..(m - 1) : s[j] \notin cs) - 1
    ELSE Len(s)

\* url: the characters a host may hold unescaped.
HostMarks ==
    {Ord("!"), Ord("$"), Ord("&"), Ord("'"), Ord("("), Ord(")"), Ord("*"),
     Ord("+"), Comma, Ord(";"), Equals, Colon, Ord("["), Ord("]"), Ord("<"),
     Ord(">"), 34}

IsHostChar(x) == IsUnreserved(x) \/ x \in HostMarks

\* url: the characters a userinfo may hold (validUserinfo).
UserinfoMarks ==
    {Ord("!"), Ord("$"), Ord("&"), Ord("'"), Ord("("), Ord(")"), Ord("*"),
     Ord("+"), Comma, Ord(";"), Equals, Colon, Percent, At}

IsUserinfoChar(x) == IsUnreserved(x) \/ x \in UserinfoMarks

\* url: unescape of %XX.
RECURSIVE Unescape(_)
Unescape(s) ==
    IF s = <<>> THEN [err |-> FALSE, out |-> <<>>]
    ELSE IF s[1] = Percent THEN
        IF Len(s) >= 3 /\ IsHex(s[2]) /\ IsHex(s[3])
        THEN LET rest == Unescape(Drop(s, 3))
             IN  IF rest.err THEN rest
                 ELSE [err |-> FALSE,
                       out |-> <<(HexVal(s[2]) * 16) + HexVal(s[3])>> \o rest.out]
        ELSE [err |-> TRUE, out |-> <<>>]
    ELSE LET rest == Unescape(Tail(s))
         IN  IF rest.err THEN rest
             ELSE [err |-> FALSE, out |-> <<s[1]>> \o rest.out]

UserPasswordMarks == {Ord("$"), Ord("&"), Ord("+"), Comma, Ord(";"), Equals}

\* url: escape in a user name or password: the unreserved characters and
\* $ & + , ; = stay, every other byte is percent-encoded.
RECURSIVE EscapeUserPassword(_)
EscapeUserPassword(s) ==
    IF s = <<>> THEN <<>>
    ELSE (IF IsUnreserved(s[1]) \/ s[1] \in UserPasswordMarks
          THEN <<s[1]>>
          ELSE <<Percent, HexDigits[(s[1] \div 16) + 1], HexDigits[(s[1] % 16) + 1]>>)
         \o EscapeUserPassword(Tail(s))

\* url.Parse of an authority's userinfo, then Userinfo.String(): the
\* escaped user name, and ':' and the escaped password when there is one.
UserinfoString(userinfo) ==
    LET m    == IndexByte(userinfo, Colon)
        name == Unescape(IF m < 0 THEN userinfo ELSE Take(userinfo, m))
        pass == Unescape(IF m < 0 THEN <<>> ELSE Drop(userinfo, m + 1))
    IN  IF (\E k \in 1..Len(userinfo) : ~IsUserinfoChar(userinfo[k]))
           \/ name.err \/ pass.err
        THEN [err |-> TRUE, out |-> <<>>]
        ELSE [err |-> FALSE,
              out |-> EscapeUserPassword(name.out)
                      \o (IF m < 0 THEN <<>>
                          ELSE <<Colon>> \o EscapeUserPassword(pass.out))]

\* url.Parse of a host: an optional port of digits after the last ':', and
\* no byte that would need escaping.
HostOK(host) ==
    LET m == LastIndexByte(host, Colon)
    IN  /\ m >= 0 => \A k \in (m + 2)..Len(host) : IsDigit(host[k])
        /\ \A k \in 1..Len(host) : IsHostChar(host[k])

AuthorityEnd == {Slash, Question, Hash}

\* url.Parse of "http://" authority [path] [?query] [#fragment]: u.Host and
\* u.User (its String(); nil without userinfo), or an error. Bracketed
\* IPv6 hosts are not modelled.
URLParse(raw) ==
    LET rest      == Drop(raw, Len(HttpPrefix))
        authority == Take(rest, FirstOf(rest, AuthorityEnd))
        at        == LastIndexByte(authority, At)
        host      == IF at < 0 THEN authority ELSE Drop(authority, at + 1)
        user      == IF at < 0 THEN [err |-> FALSE, out |-> <<>>]
                     ELSE UserinfoString(Take(authority, at))
    IN  IF (\E k \in 1..Len(raw) : raw[k] < 32 \/ raw[k] = 127)
           \/ ~HostOK(host) \/ user.err
        THEN [err |-> TRUE, Host |-> <<>>, User |-> NilPtr]
        ELSE [err |-> FALSE, Host |-> host,
              User |-> IF at < 0 THEN NilPtr ELSE Ptr(user.out)]

\* urlParse(raw): "http://" is put in front of a backend that lacks it.
urlParse(raw) ==
    IF ~HasPrefix(raw, HttpPrefix) THEN URLParse(HttpPrefix \o raw)
    ELSE URLParse(raw)

(***************************************************************************)
(* backendReq (src/proxy.go 291-306)                                       *)
(***************************************************************************)

\* req.Header.Set(name, value)
HeaderSet(header, name, value) ==
    [n \in (DOMAIN header) \cup {name} |-> IF n = name THEN value ELSE header[n]]

\* backendReq(r, userinfo): a CONNECT to r.Host with the headers of r; the
\* Proxy-Authorization header is set from the backend's userinfo when the
\* backend URI has one.
backendReq(req, userinfo) ==
    [Method |-> "CONNECT",
     Host   |-> req.Host,
     Header |-> IF ~userinfo.nil
                THEN HeaderSet(req.Header, "Proxy-Authorization",
                               BasicPrefix \o B64Encode(userinfo.v))
                ELSE req.Header]

(***************************************************************************)
(* Bounds and inputs                                                       *)
(***************************************************************************)

\* The longest configured backend list.
MaxBackends == 2

\* The backends a Proxy is configured from: tagged templates, a literal
\* with and one without credentials, and one that is no URL.
BackendFoo == Str("{foo}http://a:1")
BackendFooBar == Str("{foo}{bar}http://u:p@b:1")
BackendCred == Str("http://u:p@c:1")
BackendPlain == Str("http://e:1")
BackendNoURL == Str(":non-url")

BackendPool == {BackendFoo, BackendFooBar, BackendCred, BackendPlain, BackendNoURL}

BackendLists == UNION { [1..n -> BackendPool] : n \in 0..MaxBackends }

\* Backends for the tags and for EnableTemplates: a tag that stands alone,
\* and a template with an expression that is not closed.
BackendBar == Str("{bar}http://d:1")
BackendBadTemplate == Str("http://{foo:1")

\* The three tagged backends of the README, and lists with a backend that
\* is no template, alone and after one that is.
TagList == <<BackendFoo, BackendBar, BackendFooBar>>

TagLists == {TagList, <<BackendBadTemplate>>, <<BackendFoo, BackendBadTemplate>>}

\* Values of an inbound Proxy-Authorization header: a tag; a tag, a variable
\* with a value and a password under a lower-case scheme; another scheme;
\* and one that is no base64 ("Zm8" lacks its padding).
AuthFoo == BasicPrefix \o B64Encode(Str("foo"))
AuthBarFooX == Str("basic ") \o B64Encode(Str("bar,foo=x:bar"))
AuthBearer == Str("Bearer ") \o B64Encode(Str("foo"))
AuthMalformed == BasicPrefix \o Str("Zm8")

AuthPool == {AuthFoo, AuthBarFooX, AuthBearer, AuthMalformed}

\* Values for the lists of TagLists: the tag bar, the tags foo and bar, and
\* foo with a value that has a reserved character.
AuthBar == BasicPrefix \o B64Encode(Str("bar"))
AuthFooBar == BasicPrefix \o B64Encode(Str("foo,bar"))
AuthFooSlash == BasicPrefix \o B64Encode(Str("foo=a/b"))

\* The tag bar, and foo with a value that is not valid UTF-8: the one
\* byte 255.
AuthBarFooBad == BasicPrefix \o B64Encode(Str("bar,foo=") \o <<255>>)

\* foo with a value that has a '=', and a password that reads like pairs.
AuthFooEq == BasicPrefix \o B64Encode(Str("foo=a=b:bar=1,baz"))

TagAuthPool == {AuthBar, AuthFooBar, AuthFooSlash, AuthBarFooBad, AuthFooEq}

\* The headers of an inbound request: always a User-Agent, and a
\* Proxy-Authorization or none.
BaseHeader == [n \in {"User-Agent"} |-> Str("curl")]

RequestHeaders ==
    {BaseHeader} \cup {HeaderSet(BaseHeader, "Proxy-Authorization", a) : a \in AuthPool}

TagRequestHeaders ==
    {HeaderSet(BaseHeader, "Proxy-Authorization", a) : a \in TagAuthPool}

\* The headers of the requests a Proxy with the backends bs is sent.
HeadersFor(bs) ==
    IF bs \in TagLists THEN RequestHeaders \cup TagRequestHeaders
    ELSE RequestHeaders

Methods == {"CONNECT", "GET"}

\* The target of the inbound CONNECT.
Target == Str("origin:443")

\* Status codes a backend may answer with: the edges of 2xx.
StatusCodes == {199, 200, 299, 300}

(***************************************************************************)
(* http.Error and the error values                                         *)
(***************************************************************************)

StatusBadRequest == 400
StatusMethodNotAllowed == 405
StatusBadGateway == 502
StatusServiceUnavailable == 503

\* http.Error(w, msg, code): the status code and msg followed by a newline.
HttpError(msg, code) == [code |-> code, body |-> msg \o <<10>>]

\* Nothing written to the ResponseWriter.
NoReply == [code |-> 0, body |-> <<>>]

NoError == [kind |-> "nil", code |-> 0]
ErrOf(kind) == [kind |-> kind, code |-> 0]

\* &unsuccessfulStatusError{statusCode: resp.StatusCode, ...}
unsuccessfulStatusError(code) == [kind |-> "status", code |-> code]

\* Variant: only a status of 300 and more is unsuccessful.
UnsuccessfulFrom300(code) == code >= 300

\* resp.StatusCode/100 != 2 (src/proxy.go 284)
Unsuccessful(code) == code \div 100 # 2

NoRequest == [Method |-> "", Host |-> <<>>, Header |-> <<>>]

\* r.Body: http.NoBody, or a body of some bytes the client sent with its
\* request. A body comes with the requests to the one Proxy whose only
\* backend is no URL.
NoBody == [len |-> 0, unread |-> 0]
MaxBody == 1

BodyLens(bs) == IF bs = <<BackendNoURL>> THEN {0, MaxBody} ELSE {0}

\* r.Body.Close() on a body of n unread bytes: the body of a server
\* request reads what is left if that is not too much, any other
\* io.ReadCloser leaves it; the handler itself reads nothing.
BodyClose(n) == {[len |-> n, unread |-> 0], [len |-> n, unread |-> n]}

(***************************************************************************)
(* State                                                                   *)
(***************************************************************************)

VARIABLES
    p,          \* the Proxy: Backends, parsedBackends, Timeout, TLSHandshake,
                \* and Favicon: whether CheckFavicon is among its checks
    templates,  \* what EnableTemplates returned: "unset", "ok" or "error"
    pc,         \* where the handler of the request stands
    r,          \* the inbound request
    bodyClosed, \* how often r.Body was closed
    body,       \* r.Body: its length and what of it is still unread
    w,          \* what the handler wrote to the ResponseWriter
    backends,   \* connect: the applicable backends of the request
    i,          \* connect: the position of the loop in backends
    ctx,        \* connectOne: the context of the trial
    u,          \* p.inbound: the parsed URL of the backend
    role,       \* which call of p.inbound runs: "primary" or "aux"
    conns,      \* every backend connection dialed for the request: the trial
                \* and backend it was dialed for, the request written to it,
                \* the status read from it (0: none) and whether it is open
    inbound,    \* the trial's primary connection (a position in conns, 0: none)
    aux,        \* the check's own connection (a position in conns, 0: none)
    resp,       \* the response read on the primary connection
    err,        \* the error the trial returns
    events,     \* the calls of p.Callback: backend and error
    hijack,     \* the takeover of the client connection
    outbound,   \* the hijacked client connection: open, and what was written
    trials,     \* connect: the positions connectOne was called for, in order
    handshake,  \* checkTLSHandshake: what conn.Handshake() gave in the trial
                \* that is under way or was the last
    br,         \* p.inbound: what the bufio.Reader of the primary connection
                \* read past the response and holds
    backend,    \* the far end of the primary connection: the bytes it sent
                \* and has in flight, whether it closed, what it received
    client,     \* the far end of the client connection, likewise
    up,         \* pipe: the copy from outbound to inbound
    down,       \* pipe: the copy from inbound to outbound
    disconnects \* the calls of p.OnDisconnect: the bytes copied each way

vars == <<p, templates, pc, r, bodyClosed, body, w, backends, i, ctx, u, role, conns,
          inbound, aux, resp, err, events, hijack, outbound, trials, handshake,
          br, backend, client, up, down, disconnects>>

\* What only pipe and the far ends change.
tunnel == <<client, up, down, disconnects>>

NoResponse == [StatusCode |-> 0, conn |-> 0]

NoURL == [err |-> FALSE, Host |-> <<>>, User |-> NilPtr]

\* The far end of a connection before it sent anything.
NoPeer == [sent |-> 0, closed |-> FALSE, buf |-> <<>>, got |-> <<>>]

\* A copy of pipe before its goroutine runs: where it stands, the bytes it
\* has read and not yet written, and the bytes it has written.
NoCopy == [pc |-> "idle", chunk |-> <<>>, n |-> 0]

\* The most bytes a far end sends into the tunnel.
MaxBytes == 2

\* The bytes the client sends, and the bytes the backend sends after its
\* response, in order: no byte occurs twice.
ClientScript == [m \in 1..MaxBytes |-> m]
BackendScript == [m \in 1..MaxBytes |-> MaxBytes + m]

\* The far ends have bytes to send, and the backend may be the one to
\* close, when the Proxy has the one backend http://e:1, no timeout and no
\* checks; with any other Proxy the tunnel carries nothing and the client
\* closes it.
Budget ==
    IF /\ Len(p.Backends) = 1
       /\ p.Backends[1] = BackendPlain
       /\ p.Timeout = 0
       /\ ~p.TLSHandshake
       /\ ~p.Favicon
    THEN MaxBytes
    ELSE 0

Init ==
    /\ p \in [Backends : BackendLists \cup TagLists, parsedBackends : {NilPtr},
              Timeout : {0, 1}, TLSHandshake : BOOLEAN, Favicon : BOOLEAN]
    /\ p.Favicon => p.Timeout = 0
    /\ p.Backends \in TagLists =>
          (p.Timeout = 0 /\ ~p.TLSHandshake /\ ~p.Favicon)
    /\ templates = "unset"
    /\ pc = "config"
    /\ r = NoRequest
    /\ bodyClosed = 0
    /\ body = NoBody
    /\ w = NoReply
    /\ backends = <<>>
    /\ i = 0
    /\ ctx = "none"
    /\ u = NoURL
    /\ role = "none"
    /\ conns = <<>>
    /\ inbound = 0
    /\ aux = 0
    /\ resp = NoResponse
    /\ err = NoError
    /\ events = <<>>
    /\ hijack = "none"
    /\ outbound = [state |-> "none", written |-> <<>>]
    /\ trials = <<>>
    /\ handshake = "none"
    /\ br = <<>>
    /\ backend = NoPeer
    /\ client = NoPeer
    /\ up = NoCopy
    /\ down = NoCopy
    /\ disconnects = <<>>

(***************************************************************************)
(* Configuration and the arrival of a request                              *)
(***************************************************************************)

\* p.EnableTemplates(), before the Proxy serves.
EnableTemplates ==
    /\ pc = "config"
    /\ templates = "unset"
    /\ LET res == EnableTemplatesResult(p.Backends)
       IN  /\ p' = [p EXCEPT !.parsedBackends = res.parsed]
           /\ templates' = IF res.err THEN "error" ELSE "ok"
    /\ UNCHANGED <<pc, r, bodyClosed, body, w, backends, i, ctx, u, role, conns,
                   inbound, aux, resp, err, events, hijack, outbound>>
    /\ UNCHANGED <<trials, handshake, br, backend, tunnel>>

\* Variant: every method goes on to connect.
ServeHTTPAnyMethod ==
    /\ pc = "config"
    /\ \E m \in Methods, h \in HeadersFor(p.Backends) :
          /\ r' = [Method |-> m, Host |-> Target, Header |-> h]
          /\ bodyClosed' = bodyClosed + 1
          /\ \E n \in BodyLens(p.Backends) : body' \in BodyClose(n)
          /\ pc' = "connect" /\ w' = w
    /\ UNCHANGED <<p, templates, u, backends, i, ctx, role, conns, inbound, aux,
                   resp, err, events, hijack, outbound>>
    /\ UNCHANGED <<trials, handshake, br, backend, tunnel>>

\* Variant: ServeHTTP does not close r.Body.
ServeHTTPKeepsBodyOpen ==
    /\ pc = "config"
    /\ \E m \in Methods, h \in HeadersFor(p.Backends) :
          /\ r' = [Method |-> m, Host |-> Target, Header |-> h]
          /\ \E n \in BodyLens(p.Backends) : body' = [len |-> n, unread |-> n]
          /\ IF m = "CONNECT"
             THEN pc' = "connect" /\ w' = w
             ELSE pc' = "done" /\ w' = HttpError(<<>>, StatusMethodNotAllowed)
    /\ UNCHANGED <<p, templates, u, backends, i, ctx, role, conns, inbound, aux,
                   resp, err, events, hijack, outbound, bodyClosed>>
    /\ UNCHANGED <<trials, handshake, br, backend, tunnel>>

\* ServeHTTP: the body is closed, CONNECT goes on to connect and any other
\* method is answered 405.
ServeHTTP ==
    /\ pc = "config"
    /\ \E m \in Methods, h \in HeadersFor(p.Backends) :
          /\ r' = [Method |-> m, Host |-> Target, Header |-> h]
          /\ bodyClosed' = bodyClosed + 1
          /\ \E n \in BodyLens(p.Backends) : body' \in BodyClose(n)
          /\ IF m = "CONNECT"
             THEN pc' = "connect" /\ w' = w
             ELSE pc' = "done" /\ w' = HttpError(<<>>, StatusMethodNotAllowed)
    /\ UNCHANGED <<p, templates, u, backends, i, ctx, role, conns, inbound, aux,
                   resp, err, events, hijack, outbound>>
    /\ UNCHANGED <<trials, handshake, br, backend, tunnel>>

\* connect, up to the loop: the applicable backends, or 400 when the
\* parameters of the request cannot be read.
Connect ==
    /\ pc = "connect"
    /\ LET res == applicableBackends(p.Backends, p.parsedBackends, r.Header)
       IN  IF res.err
           THEN /\ w' = HttpError(<<>>, StatusBadRequest)
                /\ pc' = "done"
                /\ UNCHANGED <<backends, i>>
           ELSE /\ backends' = res.backends
                /\ i' = 1
                /\ pc' = "loop"
                /\ w' = w
    /\ UNCHANGED <<p, templates, u, r, bodyClosed, body, ctx, role, conns, inbound, aux,
                   resp, err, events, hijack, outbound>>
    /\ UNCHANGED <<trials, handshake, br, backend, tunnel>>

(***************************************************************************)
(* The loop of connect and connectOne                                      *)
(***************************************************************************)

\* The backend in trial.
b == backends[i]

\* Variant: the loop goes on to the next backend while the response of
\* the backend in trial is still awaited.
LoopNextWhileReading ==
    /\ pc \in {"loop", "read"}
    /\ LET n == IF pc = "read" THEN i + 1 ELSE i
       IN  /\ n <= Len(backends)
           /\ i' = n
           /\ u' = urlParse(backends[n])
           /\ trials' = Append(trials, n)
    /\ ctx' = IF p.Timeout # 0 THEN "deadline" ELSE "background"
    /\ role' = "primary"
    /\ pc' = "dial"
    /\ UNCHANGED <<p, templates, r, bodyClosed, body, w, backends, conns, inbound,
                   aux, resp, err, events, hijack, outbound>>
    /\ handshake' = "none"
    /\ br' = <<>>
    /\ backend' = NoPeer
    /\ UNCHANGED tunnel

\* The next backend: connectOne derives the context of the trial and calls
\* p.inbound for the primary connection, which parses the backend.
LoopNext ==
    /\ pc = "loop"
    /\ i <= Len(backends)
    /\ ctx' = IF p.Timeout # 0 THEN "deadline" ELSE "background"
    /\ role' = "primary"
    /\ u' = urlParse(b)
    /\ pc' = "dial"
    /\ UNCHANGED <<p, templates, r, bodyClosed, body, w, backends, i, conns, inbound,
                   aux, resp, err, events, hijack, outbound>>
    /\ trials' = Append(trials, i)
    /\ handshake' = "none"
    /\ br' = <<>>
    /\ backend' = NoPeer
    /\ UNCHANGED tunnel

\* Variant: the loop ends one backend early.
LoopEndEarly ==
    /\ pc = "loop"
    /\ i >= Len(backends)
    /\ w' = HttpError(<<>>, StatusServiceUnavailable)
    /\ pc' = "done"
    /\ UNCHANGED <<p, templates, u, r, bodyClosed, body, backends, i, ctx, role, conns,
                   inbound, aux, resp, err, events, hijack, outbound>>
    /\ handshake' = "none"
    /\ UNCHANGED <<trials, br, backend, tunnel>>

\* No backend is left: 503.
LoopEnd ==
    /\ pc = "loop"
    /\ i > Len(backends)
    /\ w' = HttpError(<<>>, StatusServiceUnavailable)
    /\ pc' = "done"
    /\ UNCHANGED <<p, templates, u, r, bodyClosed, body, backends, i, ctx, role, conns,
                   inbound, aux, resp, err, events, hijack, outbound>>
    /\ handshake' = "none"
    /\ UNCHANGED <<trials, br, backend, tunnel>>

\* Variant: the deadline of the context is a deadline of the connections
\* dialed under it, which are closed when it passes.
CtxExpireClosesConns ==
    /\ ctx = "deadline"
    /\ ctx' = "expired"
    /\ conns' = [c \in 1..Len(conns) |-> [conns[c] EXCEPT !.open = FALSE]]
    /\ UNCHANGED <<p, templates, u, pc, r, bodyClosed, body, w, backends, i, role,
                   inbound, aux, resp, err, events, hijack, outbound>>
    /\ UNCHANGED <<trials, handshake, br, backend, tunnel>>

\* The deadline of the trial's context passes.
CtxExpire ==
    /\ ctx = "deadline"
    /\ ctx' = "expired"
    /\ UNCHANGED <<p, templates, u, pc, r, bodyClosed, body, w, backends, i, role, conns,
                   inbound, aux, resp, err, events, hijack, outbound>>
    /\ UNCHANGED <<trials, handshake, br, backend, tunnel>>

\* connectOne returns an error: the deferred cancel runs, and the
\* connections of the trial are dropped as they are.
Fail(e) ==
    /\ err' = e
    /\ ctx' = "none"
    /\ u' = NoURL
    /\ role' = "none"
    /\ inbound' = 0
    /\ aux' = 0
    /\ resp' = NoResponse
    /\ pc' = "callback"

\* connectOne returns the primary connection and its response.
Succeed ==
    /\ err' = NoError
    /\ ctx' = "none"
    /\ u' = NoURL
    /\ role' = "none"
    /\ aux' = 0
    /\ pc' = "callback"

\* connectOne goes on to CheckFavicon, the check after the TLS handshake
\* check in p.Checks.
StartFavicon ==
    /\ role' = "favicon"
    /\ u' = NoURL
    /\ aux' = 0
    /\ pc' = "favicon"
    /\ UNCHANGED <<err, ctx>>

\* The checks so far passed: the next check, or the end of the trial.
CheckNext == IF p.Favicon THEN StartFavicon ELSE Succeed

(***************************************************************************)
(* p.inbound (src/proxy.go 257-289): parse, dial, write, read, status      *)
(***************************************************************************)

\* net.Dial wants host:port; an address without a port is an error before
\* anything is dialed.
HasPort(host) == IndexByte(host, Colon) >= 0

\* The connection p.inbound works on.
cur == IF role = "primary" THEN inbound ELSE aux

\* The backend is no URL.
UrlParseError ==
    /\ pc = "dial"
    /\ u.err
    /\ Fail(ErrOf("parse"))
    /\ UNCHANGED <<p, templates, r, bodyClosed, body, w, backends, i, conns, events,
                   hijack, outbound>>
    /\ UNCHANGED <<trials, handshake, br, backend, tunnel>>

\* d.DialContext(ctx, "tcp", u.Host) connects.
DialOK ==
    /\ pc = "dial"
    /\ ~u.err
    /\ HasPort(u.Host)
    /\ ctx # "expired"
    /\ conns' = Append(conns, [i |-> i, b |-> b, host |-> u.Host, role |-> role,
                               open |-> TRUE, req |-> NoRequest, status |-> 0])
    /\ IF role = "primary"
       THEN inbound' = Len(conns) + 1 /\ aux' = aux
       ELSE aux' = Len(conns) + 1 /\ inbound' = inbound
    /\ pc' = "write"
    /\ UNCHANGED <<p, templates, u, r, bodyClosed, body, w, backends, i, ctx, role, resp,
                   err, events, hijack, outbound>>
    /\ UNCHANGED <<trials, handshake, br, backend, tunnel>>

\* The dial fails: the address has no port, or the backend is not reached.
DialError ==
    /\ pc = "dial"
    /\ ~u.err
    /\ ctx # "expired" \/ ~HasPort(u.Host)
    /\ Fail(ErrOf("dial"))
    /\ UNCHANGED <<p, templates, r, bodyClosed, body, w, backends, i, conns, events,
                   hijack, outbound>>
    /\ UNCHANGED <<trials, handshake, br, backend, tunnel>>

\* The dial is given up because the context's deadline has passed.
DialTimeout ==
    /\ pc = "dial"
    /\ ~u.err
    /\ HasPort(u.Host)
    /\ ctx = "expired"
    /\ Fail(ErrOf("timeout"))
    /\ UNCHANGED <<p, templates, r, bodyClosed, body, w, backends, i, conns, events,
                   hijack, outbound>>
    /\ UNCHANGED <<trials, handshake, br, backend, tunnel>>

\* Variant: backendReq takes the header map of r for its own, so that
\* setting Proxy-Authorization sets it in r.
WriteOKOnSharedHeader ==
    /\ pc = "write"
    /\ conns' = [conns EXCEPT ![cur].req = backendReq(r, u.User)]
    /\ r' = [r EXCEPT !.Header = backendReq(r, u.User).Header]
    /\ pc' = "read"
    /\ UNCHANGED <<p, templates, u, bodyClosed, body, w, backends, i, ctx, role,
                   inbound, aux, resp, err, events, hijack, outbound>>
    /\ UNCHANGED <<trials, handshake, br, backend, tunnel>>

\* req.Write(inbound) of backendReq(r, u.User).
WriteOK ==
    /\ pc = "write"
    /\ conns' = [conns EXCEPT ![cur].req = backendReq(r, u.User)]
    /\ pc' = "read"
    /\ UNCHANGED <<p, templates, u, r, bodyClosed, body, w, backends, i, ctx, role,
                   inbound, aux, resp, err, events, hijack, outbound>>
    /\ UNCHANGED <<trials, handshake, br, backend, tunnel>>

WriteError ==
    /\ pc = "write"
    /\ Fail(ErrOf("write"))
    /\ UNCHANGED <<p, templates, r, bodyClosed, body, w, backends, i, conns, events,
                   hijack, outbound>>
    /\ UNCHANGED <<trials, handshake, br, backend, tunnel>>

\* Variant: the status on the connection of the check is not looked at.
ReadResponseAnyStatusForCheck ==
    /\ pc = "read"
    /\ \E code \in StatusCodes :
          /\ conns' = [conns EXCEPT ![cur].status = code]
          /\ IF role = "primary" /\ Unsuccessful(code)
             THEN Fail(unsuccessfulStatusError(code)) /\ UNCHANGED <<br, backend>>
             ELSE IF role = "primary"
             THEN /\ resp' = [StatusCode |-> code, conn |-> inbound]
                  /\ \E k \in 0..Budget :
                        /\ br' = SubSeq(BackendScript, 1, k)
                        /\ backend' = [backend EXCEPT !.sent = k]
                  /\ IF p.TLSHandshake
                     THEN /\ role' = "aux"
                          /\ u' = urlParse(b)
                          /\ pc' = "dial"
                          /\ UNCHANGED <<err, ctx, aux>>
                     ELSE CheckNext
                  /\ UNCHANGED <<inbound>>
             ELSE /\ pc' = "handshake"
                  /\ UNCHANGED <<resp, err, ctx, u, role, inbound, aux, br,
                                 backend>>
    /\ UNCHANGED <<p, templates, r, bodyClosed, body, w, backends, i, events, hijack,
                   outbound>>
    /\ UNCHANGED <<trials, handshake, tunnel>>

\* Variant: the TLS handshake check is started whatever the status on the
\* primary connection is.
ReadResponseThenCheck ==
    /\ pc = "read"
    /\ \E code \in StatusCodes :
          /\ conns' = [conns EXCEPT ![cur].status = code]
          /\ IF role = "primary" /\ p.TLSHandshake
             THEN /\ resp' = [StatusCode |-> code, conn |-> inbound]
                  /\ role' = "aux"
                  /\ u' = urlParse(b)
                  /\ pc' = "dial"
                  /\ UNCHANGED <<err, ctx, aux, inbound, br, backend>>
             ELSE IF Unsuccessful(code)
             THEN Fail(unsuccessfulStatusError(code)) /\ UNCHANGED <<br, backend>>
             ELSE IF role = "primary"
             THEN /\ resp' = [StatusCode |-> code, conn |-> inbound]
                  /\ \E k \in 0..Budget :
                        /\ br' = SubSeq(BackendScript, 1, k)
                        /\ backend' = [backend EXCEPT !.sent = k]
                  /\ CheckNext
                  /\ UNCHANGED <<inbound>>
             ELSE /\ pc' = "handshake"
                  /\ UNCHANGED <<resp, err, ctx, u, role, inbound, aux, br,
                                 backend>>
    /\ UNCHANGED <<p, templates, r, bodyClosed, body, w, backends, i, events, hijack,
                   outbound>>
    /\ UNCHANGED <<trials, handshake, tunnel>>

\* http.ReadResponse gives a response, and the status decides. A 2xx on
\* the primary connection ends the trial well, or starts the TLS handshake
\* check when one is configured; a 2xx on the check's connection is followed
\* by the handshake. Nothing here looks at the context: the read lasts
\* until the backend answers or closes. The read goes through br, which
\* takes what has arrived: the response, and with it the first bytes the
\* backend sent after the response, if it sent any that early.
ReadResponse ==
    /\ pc = "read"
    /\ \E code \in StatusCodes :
          /\ conns' = [conns EXCEPT ![cur].status = code]
          /\ IF Unsuccessful(code)
             THEN Fail(unsuccessfulStatusError(code)) /\ UNCHANGED <<br, backend>>
             ELSE IF role = "primary"
             THEN /\ resp' = [StatusCode |-> code, conn |-> inbound]
                  /\ \E k \in 0..Budget :
                        /\ br' = SubSeq(BackendScript, 1, k)
                        /\ backend' = [backend EXCEPT !.sent = k]
                  /\ IF p.TLSHandshake
                     THEN /\ role' = "aux"
                          /\ u' = urlParse(b)
                          /\ pc' = "dial"
                          /\ UNCHANGED <<err, ctx, aux>>
                     ELSE CheckNext
                  /\ UNCHANGED <<inbound>>
             ELSE /\ pc' = "handshake"
                  /\ UNCHANGED <<resp, err, ctx, u, role, inbound, aux, br,
                                 backend>>
    /\ UNCHANGED <<p, templates, r, bodyClosed, body, w, backends, i, events, hijack,
                   outbound>>
    /\ UNCHANGED <<trials, handshake, tunnel>>

\* The response cannot be read: the backend closed, or sent no HTTP.
ReadError ==
    /\ pc = "read"
    /\ Fail(ErrOf("read"))
    /\ UNCHANGED <<p, templates, r, bodyClosed, body, w, backends, i, conns, events,
                   hijack, outbound>>
    /\ UNCHANGED <<trials, handshake, br, backend, tunnel>>

(***************************************************************************)
(* checkTLSHandshake (src/proxy.go 232-255), after its own p.inbound       *)
(***************************************************************************)

HandshakeResults == {"ok", "RecordHeaderError", "error"}

\* Variant: the error of the handshake is dropped.
HandshakeLenient ==
    /\ pc = "handshake"
    /\ \E res \in HandshakeResults :
          /\ handshake' = res
          /\ CheckNext /\ UNCHANGED <<inbound, resp>>
    /\ conns' = [conns EXCEPT ![aux].open = FALSE]
    /\ UNCHANGED <<p, templates, r, bodyClosed, body, w, backends, i, events, hijack,
                   outbound>>
    /\ UNCHANGED <<trials, br, backend, tunnel>>

\* Variant: every error of the handshake fails the check.
HandshakeStrict ==
    /\ pc = "handshake"
    /\ \E res \in HandshakeResults :
          /\ handshake' = res
          /\ IF res # "ok"
             THEN Fail(ErrOf("handshake"))
             ELSE CheckNext /\ UNCHANGED <<inbound, resp>>
    /\ conns' = [conns EXCEPT ![aux].open = FALSE]
    /\ UNCHANGED <<p, templates, r, bodyClosed, body, w, backends, i, events, hijack,
                   outbound>>
    /\ UNCHANGED <<trials, br, backend, tunnel>>

\* conn.Handshake() on the check's connection, which the deferred Close
\* closes: a handshake that succeeds and one that meets no TLS server pass.
Handshake ==
    /\ pc = "handshake"
    /\ \E res \in HandshakeResults :
          /\ handshake' = res
          /\ IF res = "error"
             THEN Fail(ErrOf("handshake"))
             ELSE CheckNext /\ UNCHANGED <<inbound, resp>>
    /\ conns' = [conns EXCEPT ![aux].open = FALSE]
    /\ UNCHANGED <<p, templates, r, bodyClosed, body, w, backends, i, events, hijack,
                   outbound>>
    /\ UNCHANGED <<trials, br, backend, tunnel>>

(***************************************************************************)
(* CheckFavicon, as the specification describes it: a GET of the           *)
(* well-known path on the target over a connection of its own through the  *)
(* backend, which passes on a 2xx                                          *)
(***************************************************************************)

\* What the GET is answered: 0 stands for no answer at all.
FaviconCodes == {0, 200, 404}

CheckFavicon ==
    /\ pc = "favicon"
    /\ \E code \in FaviconCodes :
          /\ conns' = Append(conns, [i |-> i, b |-> b,
                                     host |-> conns[inbound].host,
                                     role |-> "favicon", open |-> FALSE,
                                     req |-> NoRequest, status |-> code])
          /\ IF Unsuccessful(code)
             THEN Fail(ErrOf("favicon"))
             ELSE Succeed /\ UNCHANGED <<inbound, resp>>
    /\ UNCHANGED <<p, templates, r, bodyClosed, body, w, backends, i, events, hijack,
                   outbound, trials, handshake, br, backend, tunnel>>

(***************************************************************************)
(* connect after connectOne (src/proxy.go 88-109)                          *)
(***************************************************************************)

\* Variant: after an error the loop does not move on (no continue).
CallbackNoContinue ==
    /\ pc = "callback"
    /\ events' = Append(events, [b |-> b, err |-> err])
    /\ i' = i /\ pc' = "hijack"
    /\ UNCHANGED <<p, templates, u, r, bodyClosed, body, w, backends, ctx, role, conns,
                   inbound, aux, resp, err, hijack, outbound>>
    /\ UNCHANGED <<trials, handshake, br, backend, tunnel>>

\* Variant: the loop moves on after a backend that connected, too.
CallbackAlwaysContinue ==
    /\ pc = "callback"
    /\ events' = Append(events, [b |-> b, err |-> err])
    /\ i' = i + 1 /\ pc' = "loop"
    /\ UNCHANGED <<p, templates, u, r, bodyClosed, body, w, backends, ctx, role, conns,
                   inbound, aux, resp, err, hijack, outbound>>
    /\ UNCHANGED <<trials, handshake, br, backend, tunnel>>

\* Variant: only an error of p.inbound moves the loop on, not one of a check.
CallbackIgnoresCheckErrors ==
    /\ pc = "callback"
    /\ events' = Append(events, [b |-> b, err |-> err])
    /\ IF err \notin {NoError, ErrOf("handshake"), ErrOf("favicon")}
       THEN i' = i + 1 /\ pc' = "loop"
       ELSE i' = i /\ pc' = "hijack"
    /\ UNCHANGED <<p, templates, u, r, bodyClosed, body, w, backends, ctx, role, conns,
                   inbound, aux, resp, err, hijack, outbound>>
    /\ UNCHANGED <<trials, handshake, br, backend, tunnel>>

\* Variant: after an error the loop tries the same backend again.
CallbackRetries ==
    /\ pc = "callback"
    /\ events' = Append(events, [b |-> b, err |-> err])
    /\ IF err # NoError
       THEN i' = i /\ pc' = "loop"
       ELSE i' = i /\ pc' = "hijack"
    /\ UNCHANGED <<p, templates, u, r, bodyClosed, body, w, backends, ctx, role, conns,
                   inbound, aux, resp, err, hijack, outbound>>
    /\ UNCHANGED <<trials, handshake, br, backend, tunnel>>

\* Variant: p.Callback is not called for a backend that failed.
CallbackSilentOnError ==
    /\ pc = "callback"
    /\ IF err # NoError
       THEN events' = events /\ i' = i + 1 /\ pc' = "loop"
       ELSE /\ events' = Append(events, [b |-> b, err |-> err])
            /\ i' = i /\ pc' = "hijack"
    /\ UNCHANGED <<p, templates, u, r, bodyClosed, body, w, backends, ctx, role, conns,
                   inbound, aux, resp, err, hijack, outbound>>
    /\ UNCHANGED <<trials, handshake, br, backend, tunnel>>

\* Variant: after a trial that failed, the first configured backend is
\* dropped from the Proxy.
CallbackDropsBackend ==
    /\ pc = "callback"
    /\ events' = Append(events, [b |-> b, err |-> err])
    /\ IF err # NoError
       THEN /\ i' = i + 1
            /\ pc' = "loop"
            /\ p' = [p EXCEPT !.Backends = IF @ = <<>> THEN @ ELSE Tail(@)]
       ELSE i' = i /\ pc' = "hijack" /\ p' = p
    /\ UNCHANGED <<templates, u, r, bodyClosed, body, w, backends, ctx, role, conns,
                   inbound, aux, resp, err, hijack, outbound>>
    /\ UNCHANGED <<trials, handshake, br, backend, tunnel>>

\* Variant: p.Callback is called for the trials that failed only.
CallbackOnErrorOnly ==
    /\ pc = "callback"
    /\ IF err # NoError
       THEN /\ events' = Append(events, [b |-> b, err |-> err])
            /\ i' = i + 1
            /\ pc' = "loop"
       ELSE /\ events' = events
            /\ i' = i
            /\ pc' = "hijack"
    /\ UNCHANGED <<p, templates, u, r, bodyClosed, body, w, backends, ctx, role, conns,
                   inbound, aux, resp, err, hijack, outbound>>
    /\ UNCHANGED <<trials, handshake, br, backend, tunnel>>

\* p.Callback(r, b, err); an error moves the loop on.
Callback ==
    /\ pc = "callback"
    /\ events' = Append(events, [b |-> b, err |-> err])
    /\ IF err # NoError
       THEN i' = i + 1 /\ pc' = "loop"
       ELSE i' = i /\ pc' = "hijack"
    /\ UNCHANGED <<p, templates, u, r, bodyClosed, body, w, backends, ctx, role, conns,
                   inbound, aux, resp, err, hijack, outbound>>
    /\ UNCHANGED <<trials, handshake, br, backend, tunnel>>

HijackResults == {"unsupported", "failed", "ok"}

\* Variant: a takeover that fails is answered like a list that ran out.
HijackAnswers503 ==
    /\ pc = "hijack"
    /\ \E res \in HijackResults :
          /\ hijack' = res
          /\ IF res = "ok"
             THEN /\ outbound' = [state |-> "open", written |-> <<>>]
                  /\ pc' = "respond"
                  /\ w' = w
             ELSE /\ w' = HttpError(<<>>, StatusServiceUnavailable)
                  /\ pc' = "done"
                  /\ outbound' = outbound
    /\ UNCHANGED <<p, templates, u, r, bodyClosed, body, backends, i, ctx, role, conns,
                   inbound, aux, resp, err, events>>
    /\ handshake' = "none"
    /\ UNCHANGED <<trials, br, backend, tunnel>>

\* Variant: with a ResponseWriter that is no Hijacker the loop goes on to
\* the next backend.
HijackUnsupportedGoesOn ==
    /\ pc = "hijack"
    /\ \E res \in HijackResults :
          /\ hijack' = res
          /\ IF res = "ok"
             THEN /\ outbound' = [state |-> "open", written |-> <<>>]
                  /\ pc' = "respond"
                  /\ w' = w
                  /\ i' = i
             ELSE IF res = "unsupported"
             THEN /\ w' = w
                  /\ pc' = "loop"
                  /\ i' = i + 1
                  /\ outbound' = outbound
             ELSE /\ w' = HttpError(<<>>, StatusBadGateway)
                  /\ pc' = "done"
                  /\ outbound' = outbound
                  /\ i' = i
    /\ UNCHANGED <<p, templates, u, r, bodyClosed, body, backends, ctx, role, conns,
                   inbound, aux, resp, err, events>>
    /\ handshake' = "none"
    /\ UNCHANGED <<trials, br, backend, tunnel>>

\* w.(http.Hijacker) and h.Hijack(): 502 when the ResponseWriter is no
\* Hijacker or the takeover fails.
Hijack ==
    /\ pc = "hijack"
    /\ \E res \in HijackResults :
          /\ hijack' = res
          /\ IF res = "ok"
             THEN /\ outbound' = [state |-> "open", written |-> <<>>]
                  /\ pc' = "respond"
                  /\ w' = w
             ELSE /\ w' = HttpError(<<>>, StatusBadGateway)
                  /\ pc' = "done"
                  /\ outbound' = outbound
    /\ UNCHANGED <<p, templates, u, r, bodyClosed, body, backends, i, ctx, role, conns,
                   inbound, aux, resp, err, events>>
    /\ handshake' = "none"
    /\ UNCHANGED <<trials, br, backend, tunnel>>

\* resp.Write(outbound)
Respond ==
    /\ pc = "respond"
    /\ outbound' = [outbound EXCEPT !.written = Append(@, resp)]
    /\ pc' = "pipe"
    /\ UNCHANGED <<p, templates, u, r, bodyClosed, body, w, backends, i, ctx, role, conns,
                   inbound, aux, resp, err, events, hijack>>
    /\ UNCHANGED <<trials, handshake, br, backend, tunnel>>

(***************************************************************************)
(* pipe (src/proxy.go 209-230) and the far ends of its two connections     *)
(***************************************************************************)

\* What pipe leaves alone.
handler == <<p, templates, u, r, bodyClosed, body, w, backends, i, ctx, role, inbound,
             aux, resp, err, events, hijack, trials, handshake, br>>

\* pipe(inbound, outbound) starts its two goroutines.
Pipe ==
    /\ pc = "pipe"
    /\ up.pc = "idle"
    /\ up' = [up EXCEPT !.pc = "read"]
    /\ down' = [down EXCEPT !.pc = "read"]
    /\ UNCHANGED <<handler, pc, conns, outbound, backend, client, disconnects>>

\* io.Copy(inbound, outbound) reads from the client connection: some of
\* the bytes in flight, the end of the stream once the client has closed,
\* or an error once the connection is closed on this side.
UpRead ==
    /\ up.pc = "read"
    /\ IF outbound.state = "closed"
       THEN up' = [up EXCEPT !.pc = "close"] /\ client' = client
       ELSE IF client.buf # <<>>
       THEN \E k \in 1..Len(client.buf) :
               /\ up' = [up EXCEPT !.pc = "write",
                                   !.chunk = SubSeq(client.buf, 1, k)]
               /\ client' = [client EXCEPT
                                !.buf = SubSeq(@, k + 1, Len(@))]
       ELSE /\ client.closed
            /\ up' = [up EXCEPT !.pc = "close"]
            /\ client' = client
    /\ UNCHANGED <<handler, pc, conns, outbound, backend, down, disconnects>>

\* Variant: a write that takes only the first byte counts as complete.
UpWriteShort ==
    /\ up.pc = "write"
    /\ \/ /\ backend' = [backend EXCEPT !.got = @ \o SubSeq(up.chunk, 1, 1)]
          /\ up' = [pc |-> "read", chunk |-> <<>>, n |-> up.n + Len(up.chunk)]
       \/ /\ backend.closed
          /\ backend' = backend
          /\ up' = [up EXCEPT !.pc = "close", !.chunk = <<>>]
    /\ UNCHANGED <<handler, pc, conns, outbound, client, down, disconnects>>

\* io.Copy(inbound, outbound) writes what it read to the backend
\* connection; the write can fail once the backend has closed.
UpWrite ==
    /\ up.pc = "write"
    /\ \/ /\ backend' = [backend EXCEPT !.got = @ \o up.chunk]
          /\ up' = [pc |-> "read", chunk |-> <<>>, n |-> up.n + Len(up.chunk)]
       \/ /\ backend.closed
          /\ backend' = backend
          /\ up' = [up EXCEPT !.pc = "close", !.chunk = <<>>]
    /\ UNCHANGED <<handler, pc, conns, outbound, client, down, disconnects>>

\* Variant: the copy from the client returns without closing the backend
\* connection.
UpCloseLeavesOpen ==
    /\ up.pc = "close"
    /\ up' = [up EXCEPT !.pc = "returned"]
    /\ UNCHANGED <<handler, pc, conns, outbound, backend, client, down, disconnects>>

\* The copy from the client has returned: the deferred inbound.Close(),
\* then wg.Done().
UpClose ==
    /\ up.pc = "close"
    /\ conns' = [conns EXCEPT ![inbound].open = FALSE]
    /\ up' = [up EXCEPT !.pc = "returned"]
    /\ UNCHANGED <<handler, pc, outbound, backend, client, down, disconnects>>

\* io.Copy(outbound, inbound) reads from the backend connection.
DownRead ==
    /\ down.pc = "read"
    /\ IF ~conns[inbound].open
       THEN down' = [down EXCEPT !.pc = "close"] /\ backend' = backend
       ELSE IF backend.buf # <<>>
       THEN \E k \in 1..Len(backend.buf) :
               /\ down' = [down EXCEPT !.pc = "write",
                                       !.chunk = SubSeq(backend.buf, 1, k)]
               /\ backend' = [backend EXCEPT
                                 !.buf = SubSeq(@, k + 1, Len(@))]
       ELSE /\ backend.closed
            /\ down' = [down EXCEPT !.pc = "close"]
            /\ backend' = backend
    /\ UNCHANGED <<handler, pc, conns, outbound, client, up, disconnects>>

\* io.Copy(outbound, inbound) writes what it read to the client
\* connection; the write can fail once the client has closed.
DownWrite ==
    /\ down.pc = "write"
    /\ \/ /\ client' = [client EXCEPT !.got = @ \o down.chunk]
          /\ down' = [pc |-> "read", chunk |-> <<>>,
                      n |-> down.n + Len(down.chunk)]
       \/ /\ client.closed
          /\ client' = client
          /\ down' = [down EXCEPT !.pc = "close", !.chunk = <<>>]
    /\ UNCHANGED <<handler, pc, conns, outbound, backend, up, disconnects>>

\* The copy from the backend has returned: the deferred outbound.Close(),
\* then wg.Done().
DownClose ==
    /\ down.pc = "close"
    /\ outbound' = [outbound EXCEPT !.state = "closed"]
    /\ down' = [down EXCEPT !.pc = "returned"]
    /\ UNCHANGED <<handler, pc, conns, backend, client, up, disconnects>>

\* p.OnDisconnect with the bytes copied from the client to the backend and
\* from the backend to the client, as the specification describes it.
OnDisconnect ==
    disconnects' = Append(disconnects, [sent |-> up.n, received |-> down.n])

\* Variant: pipe returns without wg.Wait().
PipeReturnAtOnce ==
    /\ pc = "pipe"
    /\ up.pc # "idle"
    /\ OnDisconnect
    /\ pc' = "done"
    /\ UNCHANGED <<handler, conns, outbound, backend, client, up, down>>

\* Variant: wg.Wait() waits for one goroutine only.
PipeReturnAfterOne ==
    /\ pc = "pipe"
    /\ up.pc = "returned" \/ down.pc = "returned"
    /\ OnDisconnect
    /\ pc' = "done"
    /\ UNCHANGED <<handler, conns, outbound, backend, client, up, down>>

\* wg.Wait() returns when both goroutines are done, and pipe with it;
\* connect reports the end of the tunnel and returns.
PipeReturn ==
    /\ pc = "pipe"
    /\ up.pc = "returned"
    /\ down.pc = "returned"
    /\ OnDisconnect
    /\ pc' = "done"
    /\ UNCHANGED <<handler, conns, outbound, backend, client, up, down>>

\* The client, which has its 2xx, sends its next byte into the tunnel.
ClientWrite ==
    /\ pc = "pipe"
    /\ outbound.state = "open"
    /\ ~client.closed
    /\ client.sent < Budget
    /\ client' = [client EXCEPT !.sent = @ + 1,
                                !.buf = Append(@, ClientScript[client.sent + 1])]
    /\ UNCHANGED <<handler, pc, conns, outbound, backend, up, down, disconnects>>

\* The client closes its connection.
ClientClose ==
    /\ pc = "pipe"
    /\ up.pc # "idle"
    /\ ~client.closed
    /\ client' = [client EXCEPT !.closed = TRUE]
    /\ UNCHANGED <<handler, pc, conns, outbound, backend, up, down, disconnects>>

\* The backend sends its next byte into the tunnel.
BackendWrite ==
    /\ pc = "pipe"
    /\ conns[inbound].open
    /\ ~backend.closed
    /\ backend.sent < Budget
    /\ backend' = [backend EXCEPT
                      !.sent = @ + 1,
                      !.buf = Append(@, BackendScript[backend.sent + 1])]
    /\ UNCHANGED <<handler, pc, conns, outbound, client, up, down, disconnects>>

\* The backend closes its connection.
BackendClose ==
    /\ pc = "pipe"
    /\ up.pc # "idle"
    /\ Budget > 0
    /\ ~backend.closed
    /\ backend' = [backend EXCEPT !.closed = TRUE]
    /\ UNCHANGED <<handler, pc, conns, outbound, client, up, down, disconnects>>

\* The handler has returned and the server calls ServeHTTP for another
\* request: it is handed the same Proxy, and all that belongs to a call
\* is new.
NextRequest ==
    /\ pc = "done"
    /\ pc' = "config"
    /\ r' = NoRequest
    /\ bodyClosed' = 0
    /\ body' = NoBody
    /\ w' = NoReply
    /\ backends' = <<>>
    /\ i' = 0
    /\ ctx' = "none"
    /\ u' = NoURL
    /\ role' = "none"
    /\ conns' = <<>>
    /\ inbound' = 0
    /\ aux' = 0
    /\ resp' = NoResponse
    /\ err' = NoError
    /\ events' = <<>>
    /\ hijack' = "none"
    /\ outbound' = [state |-> "none", written |-> <<>>]
    /\ trials' = <<>>
    /\ handshake' = "none"
    /\ br' = <<>>
    /\ backend' = NoPeer
    /\ client' = NoPeer
    /\ up' = NoCopy
    /\ down' = NoCopy
    /\ disconnects' = <<>>
    /\ UNCHANGED <<p, templates>>

Next ==
    \/ EnableTemplates
    \/ ServeHTTP
    \/ Connect
    \/ LoopNext
    \/ LoopEnd
    \/ CtxExpire
    \/ UrlParseError
    \/ DialOK
    \/ DialError
    \/ DialTimeout
    \/ WriteOK
    \/ WriteError
    \/ ReadResponse
    \/ ReadError
    \/ Handshake
    \/ CheckFavicon
    \/ Callback
    \/ Hijack
    \/ Respond
    \/ Pipe
    \/ UpRead
    \/ UpWrite
    \/ UpClose
    \/ DownRead
    \/ DownWrite
    \/ DownClose
    \/ PipeReturn
    \/ ClientWrite
    \/ ClientClose
    \/ BackendWrite
    \/ BackendClose
    \/ NextRequest

Spec == Init /\ [][Next]_vars

\* The goroutines of pipe are scheduled whenever they can take a step: a
\* read that has bytes, an end of stream or a closed connection returns,
\* a write returns, a deferred Close runs, and wg.Wait() returns once both
\* goroutines are done. Nothing is asked of the client or the backend.
TunnelFairness ==
    /\ WF_vars(UpRead)
    /\ WF_vars(UpWrite)
    /\ WF_vars(UpClose)
    /\ WF_vars(DownRead)
    /\ WF_vars(DownWrite)
    /\ WF_vars(DownClose)
    /\ WF_vars(PipeReturn)

LiveSpec == Init /\ [][Next]_vars /\ TunnelFairness

(***************************************************************************)
(* Properties of the failover sequence                                     *)
(***************************************************************************)

\* The last call of p.Callback reported no error: a backend was accepted.
Accepted == events # <<>> /\ events[Len(events)].err = NoError

\* A status that is a success: 200 to 299.
Is2xx(code) == 200 <= code /\ code < 300

\* The value of the request's Proxy-Authorization header, <<>> without one.
Authorization == HeaderGet(r.Header, "Proxy-Authorization")

\* connect has resolved the backends of a CONNECT request.
Resolved == pc \notin {"config", "connect"} /\ r.Method = "CONNECT"

\* C1 (as amended): the attempt events are reported in the order of the
\* backend list, one per backend from the first on; every event but the
\* last carries an error; the client connection is only taken over after
\* an event without error, and when the takeover succeeds the client is
\* written the 2xx response read on the primary connection of the backend
\* of that last event; when the takeover fails the client gets 502 and
\* nothing of the backend's response.
C1_FailoverOrder ==
    /\ Len(events) <= Len(backends)
    /\ \A k \in 1..Len(events) :
          /\ events[k].b = backends[k]
          /\ k < Len(events) => events[k].err # NoError
    /\ Len(events) = (IF Accepted THEN i ELSE IF i = 0 THEN 0 ELSE i - 1)
    /\ (pc \in {"hijack", "respond", "pipe"} \/ hijack # "none") => Accepted
    /\ (pc \in {"pipe", "done"} /\ Accepted /\ hijack = "ok") =>
          /\ outbound.written = <<resp>>
          /\ Is2xx(resp.StatusCode)
          /\ conns[resp.conn].i = Len(events)
          /\ conns[resp.conn].b = backends[Len(events)]
          /\ conns[resp.conn].role = "primary"
          /\ conns[resp.conn].status = resp.StatusCode
          /\ w = NoReply
    /\ (pc = "done" /\ Accepted /\ hijack # "ok") =>
          /\ w.code = 502
          /\ outbound.written = <<>>

\* C1 witness: the first backend failed, the second was accepted and its
\* response was written to the client.
C1_Witness ==
    /\ pc = "done"
    /\ Len(events) = 2
    /\ events[1].err # NoError
    /\ events[2].err = NoError
    /\ hijack = "ok"
    /\ outbound.written = <<resp>>
    /\ conns[resp.conn].i = 2

\* C1 as the specification states it: whenever the request ends after a
\* backend was accepted, the client has received the response of that
\* backend.
C1_AcceptedResponseAlwaysReachesClient ==
    (pc = "done" /\ Accepted) =>
        /\ outbound.written = <<resp>>
        /\ conns[resp.conn].i = Len(events)

\* C2: an attempt event without error is the last event of its request;
\* once a backend is accepted the loop stands still at it, no trial runs,
\* and no connection was dialed for any backend after it.
C2_StopsAtFirstAccepted ==
    /\ \A k \in 1..Len(events) : events[k].err = NoError => k = Len(events)
    /\ Accepted =>
          /\ pc \in {"hijack", "respond", "pipe", "done"}
          /\ i = Len(events)
          /\ ctx = "none"
          /\ \A c \in 1..Len(conns) : conns[c].i <= Len(events)

\* C2 witness: the request has ended with the first of two backends
\* accepted, and nothing was dialed or reported for the second.
C2_Witness ==
    /\ pc = "done"
    /\ Len(backends) = 2
    /\ Len(events) = 1
    /\ events[1].err = NoError
    /\ conns # <<>>
    /\ \A c \in 1..Len(conns) : conns[c].i = 1

\* C3: a CONNECT request whose backends were resolved and of which none was
\* accepted ends with 503 and no takeover of the client connection, after
\* exactly one attempt event with an error for each backend, in order; with
\* no backend at all that is 503 and no event. 503 is answered in no other
\* case.
C3_AllFailedIs503 ==
    /\ (pc = "done" /\ r.Method = "CONNECT" /\ w.code # 400 /\ ~Accepted) =>
          /\ w.code = 503
          /\ hijack = "none"
          /\ outbound.state = "none"
          /\ outbound.written = <<>>
          /\ Len(events) = Len(backends)
          /\ \A k \in 1..Len(backends) :
                events[k].b = backends[k] /\ events[k].err # NoError
    /\ w.code = 503 => (pc = "done" /\ ~Accepted /\ Len(events) = Len(backends))

\* C3 witness: two backends, both failed, 503.
C3_Witness ==
    /\ pc = "done"
    /\ w.code = 503
    /\ Len(backends) = 2
    /\ Len(events) = 2
    /\ events[1].err # NoError
    /\ events[2].err # NoError

\* C4: after a status outside 200..299 was read in answer to CONNECT on a
\* connection to a backend (the primary one or the one of the handshake
\* check, not the GET of the favicon check), the trial
\* of that backend is over with a status error that carries that status:
\* it is what the attempt event of the backend reports, the backend is not
\* accepted, and the loop moves on past it.
C4_Non2xxRejects ==
    \A c \in 1..Len(conns) :
        LET s == conns[c].status
            t == conns[c].i
        IN  (conns[c].role # "favicon" /\ s # 0 /\ ~Is2xx(s)) =>
               IF i = t
               THEN /\ pc = "callback"
                    /\ err = [kind |-> "status", code |-> s]
                    /\ Len(events) = t - 1
               ELSE /\ i > t
                    /\ Len(events) >= t
                    /\ events[t].err = [kind |-> "status", code |-> s]
                    /\ resp.conn # c

\* C4 witness: the first backend answered 199, its event carries the status
\* error for 199, and the second backend is being dialed.
C4_Witness ==
    /\ pc = "dial"
    /\ i = 2
    /\ conns # <<>>
    /\ conns[Len(conns)].i = 1
    /\ conns[Len(conns)].status = 199
    /\ events = <<[b |-> backends[1], err |-> [kind |-> "status", code |-> 199]]>>

(***************************************************************************)
(* Properties of the resolution of the backends                            *)
(***************************************************************************)

NameFoo == Str("foo")
NameBar == Str("bar")

\* The variables of the backends of BackendPool and of TagList, read off
\* their text.
PoolVars(d) ==
    CASE d = BackendFoo -> {NameFoo}
      [] d = BackendBar -> {NameBar}
      [] d = BackendFooBar -> {NameFoo, NameBar}
      [] OTHER -> {}

\* The names that the values of AuthPool and of TagAuthPool offer under the
\* Basic scheme: "foo" is the tag foo; "bar,foo=x:bar" is the tag bar and
\* foo with the value x, the rest being the password; "bar" is the tag bar,
\* "foo,bar" both tags, and "foo=a/b" is foo with the value a/b.
OfferedNames(a) ==
    CASE a = AuthFoo -> {NameFoo}
      [] a = AuthBarFooX -> {NameBar, NameFoo}
      [] a = AuthBar -> {NameBar}
      [] a = AuthFooBar -> {NameFoo, NameBar}
      [] a = AuthFooSlash -> {NameFoo}
      [] a = AuthBarFooBad -> {NameBar, NameFoo}
      [] a = AuthFooEq -> {NameFoo}
      [] OTHER -> {}

VarFree(d) == PoolVars(d) = {}

\* The expansion of the backend fails for the request: the backend has
\* the variable foo and the value of foo is not valid UTF-8.
FailsExpansion(d, a) == a = AuthBarFooBad /\ NameFoo \in PoolVars(d)

\* C5 (as amended): with templates enabled, a CONNECT request whose
\* Proxy-Authorization is Basic with a value that is no base64 ends with
\* 400, no attempt event and no dial, whatever the backends are. With no
\* templates enabled the header is not read: the backends are the
\* configured ones and the request is not answered 400.
C5_MalformedIs400WithTemplates ==
    (Resolved /\ Authorization = AuthMalformed) =>
        IF ~p.parsedBackends.nil
        THEN /\ pc = "done"
             /\ w.code = 400
             /\ events = <<>>
             /\ conns = <<>>
             /\ hijack = "none"
        ELSE /\ w.code # 400
             /\ backends = p.Backends

\* C5 witness: templates enabled, two backends, a value that is no base64,
\* and the request has ended with 400.
C5_Witness ==
    /\ pc = "done"
    /\ r.Method = "CONNECT"
    /\ Authorization = AuthMalformed
    /\ templates = "ok"
    /\ Len(p.Backends) = 2
    /\ w.code = 400
    /\ events = <<>>

\* C5 as the specification states it: a value that is no base64 ends the
\* request with 400, zero attempt events and no dial, whether the backends
\* are literal or templates.
C5_MalformedIsAlways400 ==
    (Resolved /\ Authorization = AuthMalformed) =>
        /\ pc = "done"
        /\ w.code = 400
        /\ events = <<>>
        /\ conns = <<>>

\* C6 (as amended): a request of another method than CONNECT is answered
\* 405 with a body of one newline, and for it no backend is resolved or
\* dialed, no attempt event is reported and the client connection is not
\* taken over.
C6_NonConnectIs405 ==
    (r.Method \notin {"", "CONNECT"}) =>
        /\ pc = "done"
        /\ w = [code |-> 405, body |-> <<10>>]
        /\ backends = <<>>
        /\ i = 0
        /\ conns = <<>>
        /\ events = <<>>
        /\ hijack = "none"
        /\ outbound.state = "none"

\* C6 witness: a GET with backends configured and a Proxy-Authorization
\* header has been answered 405.
C6_Witness ==
    /\ pc = "done"
    /\ r.Method = "GET"
    /\ Len(p.Backends) = 2
    /\ Authorization = AuthFoo
    /\ w.code = 405

\* C6 as the specification states it: the 405 has an empty body.
C6_NonConnectIs405EmptyBody ==
    (r.Method \notin {"", "CONNECT"}) =>
        /\ pc = "done"
        /\ w.code = 405
        /\ w.body = <<>>
        /\ conns = <<>>
        /\ events = <<>>

C8_NoBasicIsEmptyParams ==
    (Resolved /\ Authorization \in {<<>>, AuthBearer}) =>
        /\ Params(r.Header) = [err |-> FALSE, values |-> NoValues]
        /\ w.code # 400
        /\ backends = (IF p.parsedBackends.nil THEN p.Backends
                       ELSE SelectSeq(p.Backends, VarFree))
        /\ pc = "done" =>
              \/ Accepted
              \/ w.code = 503 /\ Len(events) = Len(backends)

\* C8 witness: another scheme, templates enabled, a backend with a variable
\* and one without: only the latter was tried.
C8_Witness ==
    /\ pc = "done"
    /\ templates = "ok"
    /\ Authorization = AuthBearer
    /\ p.Backends = <<BackendFoo, BackendPlain>>
    /\ backends = <<BackendPlain>>
    /\ Len(events) = 1

(***************************************************************************)
(* Properties of the request sent to a backend and of the timeout          *)
(***************************************************************************)

\* The hosts of the backends of BackendPool whose URI has credentials,
\* which are u:p, "dTpw" in base64.
HostsWithCredentials == {Str("b:1"), Str("c:1")}
BasicUP == Str("Basic dTpw")

\* C9 as the specification states it: the Proxy-Authorization of a request
\* written to a backend comes from the credentials of the backend's URI
\* alone, and without credentials in the URI the request has no such
\* header.
C9_UpstreamAuthorizationFromURIOnly ==
    \A c \in 1..Len(conns) :
        conns[c].req.Method # "" =>
            IF conns[c].host \in HostsWithCredentials
            THEN conns[c].req.Header["Proxy-Authorization"] = BasicUP
            ELSE "Proxy-Authorization" \notin DOMAIN conns[c].req.Header

\* C10 as the specification states it: with a timeout configured, a trial
\* that waits on a backend (for the answer to CONNECT or for the handshake
\* of the check) after the deadline has passed can be ended as a timeout
\* rejection.
C10_StalledTrialTimesOut ==
    (p.Timeout # 0 /\ ctx = "expired" /\ pc \in {"read", "handshake"}) =>
        ENABLED (Next /\ pc' = "callback" /\ err' = ErrOf("timeout"))

(***************************************************************************)
(* Properties of the tunnel                                                *)
(***************************************************************************)

\* s is the beginning of t.
IsPrefix(s, t) == Len(s) <= Len(t) /\ s = SubSeq(t, 1, Len(s))

\* What the client has written into the tunnel, and what the backend has
\* written to its connection after the bytes that br took with the
\* response, before there was a tunnel.
ClientWrote == SubSeq(ClientScript, 1, client.sent)
BackendWrote == SubSeq(BackendScript, Len(br) + 1, backend.sent)

\* C11: in a tunnel, what the backend connection has been given is the
\* beginning of what the client wrote, and while the backend has not closed
\* and the backend connection is open it is, with the bytes the copy holds
\* and the bytes in flight, all of it in order; likewise what the client
\* has been given of what the backend wrote once its response was read,
\* while the client has not closed and the client connection is open.
C11_TunnelCarriesBytesUnchanged ==
    up.pc # "idle" =>
        /\ IsPrefix(backend.got, ClientWrote)
        /\ IsPrefix(client.got, BackendWrote)
        /\ (~backend.closed /\ conns[inbound].open) =>
               backend.got \o up.chunk \o client.buf = ClientWrote
        /\ (~client.closed /\ outbound.state = "open") =>
               client.got \o down.chunk \o backend.buf = BackendWrote

\* C11 witness: every byte of either side has arrived at the other, and
\* nobody has closed.
C11_Witness ==
    /\ pc = "pipe"
    /\ Len(backend.got) = MaxBytes
    /\ Len(client.got) = MaxBytes
    /\ ~client.closed
    /\ ~backend.closed

\* The statuses connect and ServeHTTP answer themselves.
ErrorCodes == {StatusBadRequest, StatusMethodNotAllowed, StatusBadGateway,
               StatusServiceUnavailable}

\* C12: p.OnDisconnect is called at most once for a request; when it was
\* called, both copies of pipe have returned and its arguments are the
\* numbers of bytes the backend and the client were given through the
\* tunnel; a handler that returns from a tunnel has called it; and it is
\* not called for a request answered 400, 405, 502 or 503.
C12_DisconnectOncePerTunnel ==
    /\ Len(disconnects) <= 1
    /\ disconnects # <<>> =>
          /\ up.pc = "returned"
          /\ down.pc = "returned"
          /\ disconnects[1].sent = Len(backend.got)
          /\ disconnects[1].received = Len(client.got)
    /\ (pc = "done" /\ up.pc # "idle") => Len(disconnects) = 1
    /\ w.code \in ErrorCodes => disconnects = <<>>

\* C12 witness: a tunnel that carried bytes both ways has ended and was
\* reported.
C12_Witness ==
    /\ pc = "done"
    /\ Len(disconnects) = 1
    /\ disconnects[1].sent = MaxBytes
    /\ disconnects[1].received > 0

(***************************************************************************)
(* Properties of the trials and their events                               *)
(***************************************************************************)

\* connectOne is running, or has returned and p.Callback is due.
InTrial == pc \in {"dial", "write", "read", "handshake", "favicon", "callback"}

\* connect went on to take over the client connection.
TakenOn == pc \in {"hijack", "respond", "pipe"} \/ hijack # "none"

\* C13: p.Callback is called once for every call of connectOne, after it
\* has returned and before the next one, with the backend of that call;
\* so there are as many events as trials, less the one under way; and an
\* event has no error exactly when connect went on to the takeover with
\* that backend, which makes it the last event.
C13_OneEventPerTrial ==
    /\ Len(events) = (IF InTrial THEN Len(trials) - 1 ELSE Len(trials))
    /\ \A k \in 1..Len(events) :
          /\ events[k].b = backends[trials[k]]
          /\ (events[k].err = NoError) <=> (k = Len(events) /\ TakenOn)
    /\ TakenOn => events # <<>>

\* C13 witness: two trials, two events, the first with an error and the
\* second without, and the tunnel of the second is running.
C13_Witness ==
    /\ pc = "pipe"
    /\ Len(trials) = 2
    /\ Len(events) = 2
    /\ events[1].err # NoError
    /\ events[2].err = NoError

\* C14: once conn.Handshake() of the check has returned, the trial fails
\* with the handshake's error, which its event reports and after which the
\* loop moves on, when that is an error other than a
\* tls.RecordHeaderError; after a handshake that succeeded or met no TLS
\* server the check has passed: the trial goes on to the next check, or
\* ends, and without a further check it ends with no error and connect
\* goes on to the takeover.
C14_HandshakeCheckVerdict ==
    handshake # "none" =>
        LET e == IF pc = "callback" THEN err ELSE events[Len(events)].err
        IN  /\ pc \in {"favicon", "callback", "loop", "hijack"}
            /\ IF handshake = "error"
               THEN pc \in {"callback", "loop"} /\ e = ErrOf("handshake")
               ELSE pc # "favicon" =>
                       /\ e # ErrOf("handshake")
                       /\ ~p.Favicon => (e = NoError /\ pc # "loop")

\* C14 witness: the target was no TLS server, and the trial ended well.
C14_Witness ==
    /\ handshake = "RecordHeaderError"
    /\ pc = "callback"
    /\ err = NoError

\* A trial has ended and connect has not yet begun the next one or the
\* takeover.
TrialOver == trials # <<>> /\ pc \in {"callback", "loop", "hijack"}

\* The position of the last trial, and the error it ended with.
LastTrial == trials[Len(trials)]
LastError == IF pc = "callback" THEN err ELSE events[Len(events)].err

\* The connections of a role dialed in the last trial.
LastConns(rl) ==
    {c \in 1..Len(conns) : conns[c].i = LastTrial /\ conns[c].role = rl}

\* C15: a trial that ended without error read a 2xx in answer to CONNECT
\* on its primary connection, passed the handshake check when that is
\* configured and the favicon check when that is configured; a trial whose
\* handshake check failed ended with the handshake's error without the
\* favicon check being run, and one whose favicon check failed ended with
\* that check's error; either way the event carries the error, there is no
\* takeover, and the loop stands at the next backend.
C15_AcceptedOnlyAfterAllChecks ==
    TrialOver =>
        /\ LastError = NoError =>
              /\ \E c \in LastConns("primary") : Is2xx(conns[c].status)
              /\ p.TLSHandshake => handshake \in {"ok", "RecordHeaderError"}
              /\ p.Favicon =>
                    \E c \in LastConns("favicon") : Is2xx(conns[c].status)
        /\ handshake = "error" =>
              /\ LastError = ErrOf("handshake")
              /\ LastConns("favicon") = {}
        /\ \A c \in LastConns("favicon") :
              ~Is2xx(conns[c].status) => LastError = ErrOf("favicon")
        /\ LastError # NoError =>
              /\ pc # "hijack"
              /\ pc = "loop" => i = LastTrial + 1

\* C15 witness: both checks are configured, the handshake check of the
\* first backend failed, and the loop stands at the second backend.
C15_Witness ==
    /\ p.TLSHandshake
    /\ p.Favicon
    /\ pc = "loop"
    /\ handshake = "error"
    /\ i = 2
    /\ Len(backends) = 2

\* C16: when the GET of the favicon check was not answered with a 2xx, the
\* backend had answered CONNECT with a 2xx, its trial ends with the
\* check's error, which its event reports, and the takeover is never for
\* that trial.
C16_FaviconFailureRejects ==
    \A c \in 1..Len(conns) :
        (conns[c].role = "favicon" /\ ~Is2xx(conns[c].status)) =>
            LET t == conns[c].i
            IN  /\ \E d \in 1..Len(conns) :
                      /\ conns[d].i = t
                      /\ conns[d].role = "primary"
                      /\ Is2xx(conns[d].status)
                /\ IF Len(events) < t
                   THEN pc = "callback" /\ err = ErrOf("favicon")
                   ELSE events[t].err = ErrOf("favicon")
                /\ TakenOn => Len(events) # t

\* C16 witness: the first backend answered CONNECT with 200 and the GET
\* with 404, and the second backend is the one taken on.
C16_Witness ==
    /\ pc = "hijack"
    /\ i = 2
    /\ \E c \in 1..Len(conns) :
          /\ conns[c].role = "favicon"
          /\ conns[c].i = 1
          /\ conns[c].status = 404

(***************************************************************************)
(* Properties of what the client sees                                      *)
(***************************************************************************)

\* The handler answered with http.Error(w, "", code) and nothing else.
Answered(code) ==
    /\ w = HttpError(<<>>, code)
    /\ outbound.written = <<>>
    /\ up.pc = "idle"

\* The outcomes of a request that hold in the state.
Outcomes ==
    {o \in {"tunnel", "503", "502", "400", "405"} :
        CASE o = "tunnel" -> /\ w = NoReply
                             /\ outbound.written = <<resp>>
                             /\ Is2xx(resp.StatusCode)
                             /\ Accepted
                             /\ hijack = "ok"
          [] o = "503" -> /\ Answered(StatusServiceUnavailable)
                          /\ r.Method = "CONNECT"
                          /\ ~Accepted
                          /\ Len(events) = Len(backends)
          [] o = "502" -> /\ Answered(StatusBadGateway)
                          /\ Accepted
                          /\ hijack \in {"unsupported", "failed"}
          [] o = "400" -> /\ Answered(StatusBadRequest)
                          /\ r.Method = "CONNECT"
                          /\ trials = <<>>
          [] o = "405" -> /\ Answered(StatusMethodNotAllowed)
                          /\ r.Method # "CONNECT"
                          /\ trials = <<>>}

\* C17: until the handler has written the accepted response to the client
\* connection or has returned, the client has been given nothing; from
\* then on exactly one outcome holds: the 2xx response of the accepted
\* backend on the client connection that was taken over, or one answer
\* with an empty message: 503 after every backend failed, 502 after a
\* takeover that failed, 400 or 405 before any trial. The answer never
\* carries the status or the error of a backend that failed.
C17_OneOutcomePerRequest ==
    IF pc \in {"pipe", "done"}
    THEN Cardinality(Outcomes) = 1
    ELSE w = NoReply /\ outbound.written = <<>>

\* C17 witness: the only backend was accepted after its 299, the takeover
\* is not supported, and the client has its 502.
C17_Witness ==
    /\ pc = "done"
    /\ Outcomes = {"502"}
    /\ Len(conns) = 1
    /\ conns[1].status = 299

\* C18 as the specification states it: after a takeover that failed the
\* client has its 502, no further backend was tried, no tunnel was started
\* and the connection of the accepted trial is closed.
C18_TakeoverFailureClosesBackend ==
    (pc = "done" /\ hijack \in {"unsupported", "failed"}) =>
        /\ w = HttpError(<<>>, StatusBadGateway)
        /\ Len(trials) = Len(events)
        /\ events[Len(events)].err = NoError
        /\ up.pc = "idle"
        /\ outbound.written = <<>>
        /\ ~conns[inbound].open

\* C19: the positions of the backend list are tried in strictly rising
\* order, so none of them twice and none after a later one; the k-th event
\* is for the k-th trial, so no position has two events; and no connection
\* is dialed for a position once one was dialed for a later position.
C19_NoCandidateTriedTwice ==
    /\ \A j, k \in 1..Len(trials) : j < k => trials[j] < trials[k]
    /\ \A k \in 1..Len(trials) : trials[k] \in 1..Len(backends)
    /\ Len(events) <= Len(trials)
    /\ \A k \in 1..Len(events) : events[k].b = backends[trials[k]]
    /\ \A c, d \in 1..Len(conns) : c < d => conns[c].i <= conns[d].i
    /\ trials # <<>> => i >= trials[Len(trials)]

\* C19 witness: two backends were tried, both failed after a connection
\* was dialed, and the request ended.
C19_Witness ==
    /\ pc = "done"
    /\ Len(trials) = 2
    /\ Len(events) = 2
    /\ events[2].err # NoError
    /\ Len(conns) >= 2

(***************************************************************************)
(* Properties of the resolved backends                                     *)
(***************************************************************************)

\* The value the values of AuthPool and of TagAuthPool give the variable
\* foo, as it stands in a backend: x, a/b with its slash as %2F, or nothing.
OfferedFoo(a) ==
    CASE a = AuthBarFooX -> Str("x")
      [] a = AuthFooSlash -> Str("a%2Fb")
      [] a = AuthFooEq -> Str("a%3Db")
      [] OTHER -> <<>>

\* A backend of BackendPool after its expressions, read off its text.
AfterExpressions(d) ==
    CASE d = BackendFoo -> Drop(d, 5)
      [] d = BackendBar -> Drop(d, 5)
      [] d = BackendFooBar -> Drop(d, 10)
      [] OTHER -> d

\* What a backend of BackendPool is for a request that offers its
\* variables: the value of foo, nothing for the tag bar, and the rest.
ExpectedBackend(d, a) ==
    IF NameFoo \in PoolVars(d) THEN OfferedFoo(a) \o AfterExpressions(d)
    ELSE AfterExpressions(d)

\* The positions of the configured backends the request is offered and
\* whose expansion does not fail.
EligiblePositions ==
    {k \in 1..Len(p.Backends) :
        /\ PoolVars(p.Backends[k]) \subseteq OfferedNames(Authorization)
        /\ ~FailsExpansion(p.Backends[k], Authorization)}

\* C20: the backends of a request are the configured backends that are
\* eligible for it, each in its form for the request, in the order of the
\* configured list: the positions they come from rise strictly and are
\* all the eligible positions. Without templates enabled they are the
\* configured list as it is.
C20_ResolvedKeepsConfiguredOrder ==
    (Resolved /\ w.code # 400) =>
        IF p.parsedBackends.nil
        THEN backends = p.Backends
        ELSE \E f \in [1..Len(backends) -> EligiblePositions] :
                /\ \A j, k \in 1..Len(backends) : j < k => f[j] < f[k]
                /\ \A k \in EligiblePositions : \E j \in 1..Len(backends) : f[j] = k
                /\ \A j \in 1..Len(backends) :
                      backends[j] = ExpectedBackend(p.Backends[f[j]], Authorization)

\* C20 witness: the request offers bar and foo = x, both configured
\* backends are eligible, and they stand in their configured order.
C20_Witness ==
    /\ pc = "loop"
    /\ templates = "ok"
    /\ Authorization = AuthBarFooX
    /\ p.Backends = <<BackendFooBar, BackendFoo>>
    /\ Len(backends) = 2
    /\ Len(backends[1]) > Len(backends[2])

(***************************************************************************)
(* Properties of the candidates of the templates                           *)
(***************************************************************************)

\* The value the values of AuthPool and of TagAuthPool give the variable
\* foo, as the client wrote it.
SuppliedFoo(a) ==
    CASE a = AuthBarFooX -> Str("x")
      [] a = AuthFooSlash -> Str("a/b")
      [] a = AuthFooEq -> Str("a=b")
      [] OTHER -> <<>>

\* A backend with the value of foo in the place of {foo} as the client
\* wrote it, and nothing in the place of the tag bar.
SuppliedBackend(d, a) ==
    IF NameFoo \in PoolVars(d) THEN SuppliedFoo(a) \o AfterExpressions(d)
    ELSE AfterExpressions(d)

\* The eligible positions of the configured backends, rising.
EligibleSeq ==
    SelectSeq([k \in 1..Len(p.Backends) |-> k],
              LAMBDA k : k \in EligiblePositions)

\* The backends that were or are in trial: those of the events, and the
\* one of the trial under way.
Tried ==
    [k \in 1..Len(trials) |->
        IF k <= Len(events) THEN events[k].b ELSE backends[trials[k]]]

WellFormed(d) == d # BackendBadTemplate

\* C22: EnableTemplates returns nil exactly if every configured backend is
\* a URI template, and then there is a parsed template for each; if one is
\* not, it returns an error and there are no parsed templates at all, so
\* that a CONNECT request that follows has the configured backends as they
\* are for its backends, whatever its Proxy-Authorization, and is not
\* answered 400.
C22_EnableTemplatesAllOrNothing ==
    /\ templates = "ok" <=>
          /\ ~p.parsedBackends.nil
          /\ \A k \in 1..Len(p.Backends) : WellFormed(p.Backends[k])
    /\ templates = "ok" => Len(p.parsedBackends.v) = Len(p.Backends)
    /\ templates = "error" =>
          /\ \E k \in 1..Len(p.Backends) : ~WellFormed(p.Backends[k])
          /\ p.parsedBackends = NilPtr
          /\ Resolved => (backends = p.Backends /\ w.code # 400)

\* C22 witness: the second backend is no template; EnableTemplates
\* returned an error, and the request had both backends in trial as they
\* are, the first with its expression.
C22_Witness ==
    /\ pc = "done"
    /\ templates = "error"
    /\ p.Backends = <<BackendFoo, BackendBadTemplate>>
    /\ Len(events) = 2
    /\ events[1].b = BackendFoo
    /\ events[2].b = BackendBadTemplate

(***************************************************************************)
(* Properties of the tags                                                  *)
(***************************************************************************)

\* The backends of TagList without their tags.
B1 == Str("http://a:1")
B2 == Str("http://d:1")
B3 == Str("http://u:p@b:1")

\* The request is for the three tagged backends, with parsed templates.
Tagged(a) ==
    /\ Resolved
    /\ p.Backends = TagList
    /\ ~p.parsedBackends.nil
    /\ Authorization = a

\* The backends of the events, in order.
EventBackends == [k \in 1..Len(events) |-> events[k].b]

CheckConns(t) ==
    {c \in 1..Len(conns) : conns[c].i = t /\ conns[c].role # "primary"}

\* A check of the backend at t was started: it is under way, or it has a
\* connection, or the handshake has a result.
CheckStarted(t) ==
    \/ i = t /\ InTrial /\ role \in {"aux", "favicon"}
    \/ trials # <<>> /\ LastTrial = t /\ handshake # "none"
    \/ CheckConns(t) # {}

\* C24: on a connection the CONNECT is written after the dial and the
\* status is read after the CONNECT was written; and a check of a backend
\* is started only after the primary connection to that backend was
\* dialed, the CONNECT written on it and a status from 200 to 299 read
\* from it: a backend whose dial, write or read failed, or whose status is
\* another, has no check under way, no connection of a check and no result
\* of a handshake.
C24_ChecksOnlyAfterPrimary2xx ==
    /\ \A c \in 1..Len(conns) :
          (conns[c].role # "favicon" /\ conns[c].status # 0) =>
              conns[c].req # NoRequest
    /\ \A t \in 1..Len(backends) :
          CheckStarted(t) =>
              \E c \in 1..Len(conns) :
                  /\ conns[c].i = t
                  /\ conns[c].role = "primary"
                  /\ conns[c].req # NoRequest
                  /\ Is2xx(conns[c].status)
                  /\ \A d \in CheckConns(t) : d > c

\* C24 witness: with the TLS handshake check configured, the first backend
\* answered 300 and has no connection but the primary one; the second
\* answered 200 and the connection of its check was dialed after that.
C24_Witness ==
    /\ p.TLSHandshake
    /\ pc = "write"
    /\ Len(conns) = 3
    /\ conns[1].i = 1 /\ conns[1].status = 300
    /\ conns[2].i = 2 /\ conns[2].role = "primary" /\ conns[2].status = 200
    /\ conns[3].i = 2 /\ conns[3].role = "aux"

(***************************************************************************)
(* Properties of what the client is sent after the takeover                *)
(***************************************************************************)

\* All the bytes the backend has sent after its response.
BackendSent == SubSeq(BackendScript, 1, backend.sent)

\* C25: the response of the accepted backend is written to the client
\* connection before any byte is relayed to it, and no byte the backend
\* sent after its response is lost: what the client is relayed is the
\* beginning of all the backend sent, the bytes br had taken with the
\* response first, and all of it but what is in flight while both sides
\* are open.
C25_NoBackendByteLost ==
    /\ up.pc # "idle" => outbound.written = <<resp>>
    /\ up.pc # "idle" =>
          /\ IsPrefix(client.got, BackendSent)
          /\ (~client.closed /\ outbound.state = "open") =>
                 client.got \o down.chunk \o backend.buf = BackendSent

(***************************************************************************)
(* Properties of the end of the tunnel                                     *)
(***************************************************************************)

\* A side of the tunnel is at its end: the client or the backend has
\* closed, or one of the copies has met the end of the stream or an error
\* and is about to close its destination.
TunnelEnding ==
    /\ pc = "pipe"
    /\ up.pc # "idle"
    /\ \/ client.closed
       \/ backend.closed
       \/ up.pc \in {"close", "returned"}
       \/ down.pc \in {"close", "returned"}

\* Both copies have returned, both connections are closed, and pipe has
\* returned to the handler, which has returned.
TunnelOver ==
    /\ pc = "done"
    /\ up.pc = "returned"
    /\ down.pc = "returned"
    /\ ~conns[inbound].open
    /\ outbound.state = "closed"

\* C26: once a side of the tunnel is at its end, the copy that reads from
\* it closes its destination and with that ends the other copy: in the
\* end both copies have returned, both connections are closed and the
\* handler has returned.
C26_TunnelEndsOnBothSides == TunnelEnding ~> TunnelOver

\* C26 witness: the client closed while the backend never did; the copy
\* from the client closed the backend connection, and the tunnel is over.
C26_Witness ==
    /\ TunnelOver
    /\ client.closed
    /\ ~backend.closed

\* A copy of pipe is running: started and not returned.
Running(g) == g.pc \in {"read", "write", "close"}

\* C27: the two copies of pipe are started together and run only while
\* the handler is in pipe: the handler does not reach its return while
\* one of them is running, and after its return both have returned or
\* there was no tunnel.
C27_HandlerWaitsForBothCopies ==
    /\ (up.pc = "idle") <=> (down.pc = "idle")
    /\ (Running(up) \/ Running(down)) => pc = "pipe"
    /\ pc = "done" => (up.pc = "returned" <=> down.pc = "returned")

\* C27 witness: the copy from the client has returned, the copy from the
\* backend is in the middle of a write, and the handler is still in pipe.
C27_Witness ==
    /\ pc = "pipe"
    /\ up.pc = "returned"
    /\ down.pc = "write"
    /\ down.chunk # <<>>

(***************************************************************************)
(* Properties of the order of the trials                                   *)
(***************************************************************************)

\* The connections a step dials or changes.
Touched == {c \in 1..Len(conns') : c > Len(conns) \/ conns'[c] # conns[c]}

\* A step starts a trial only when no trial is under way, every trial
\* before has its event and every such event has an error; and the trial
\* it starts is of the backend the loop is at.
StartsInTurn ==
    (trials' # trials /\ trials' # <<>>) =>
        /\ ~InTrial
        /\ Len(events) = Len(trials)
        /\ \A k \in 1..Len(events) : events[k].err # NoError
        /\ trials' = Append(trials, i)
        /\ InTrial'

\* A step dials, writes to, reads from or closes connections of the one
\* backend whose trial is the last that was started, and before the
\* takeover only while that trial is under way.
TouchesLastTrialOnly ==
    Touched # {} =>
        /\ trials # <<>>
        /\ \A c \in Touched : conns'[c].i = LastTrial
        /\ InTrial \/ pc = "pipe"

\* C28: at most one backend is in trial at a time: the trial of the next
\* backend starts only after the trial of the one before has ended and
\* its event was reported, and all that happens to connections happens to
\* those of the backend in trial.
C28_OneTrialAtATime == [][StartsInTurn /\ TouchesLastTrialOnly]_vars

\* C28 witness: the second trial was started after the first had failed
\* on a connection and was reported, and has dialed its own connection.
C28_Witness ==
    /\ pc = "write"
    /\ trials = <<1, 2>>
    /\ Len(events) = 1
    /\ Len(conns) = 2
    /\ conns[1].i = 1
    /\ conns[2].i = 2
    /\ conns[2].status = 0

(***************************************************************************)
(* Properties of a request among the other requests                        *)
(***************************************************************************)

\* No step of the handling of a request changes the Proxy, which is all
\* that the calls of ServeHTTP have in common.
ProxyUnchanged == pc # "config" => (p' = p /\ templates' = templates)

\* The step that resolves the backends of a request takes them from the
\* Proxy and the header of this request and sets the loop at the first.
ResolvesFromOwnHeader ==
    (pc = "connect" /\ pc' = "loop") =>
        /\ backends' = applicableBackends(p.Backends, p.parsedBackends,
                                          r.Header).backends
        /\ i' = 1
        /\ trials' = <<>> /\ events' = <<>> /\ conns' = <<>>

\* The backends of a request stay what they were resolved to, and its
\* first trial is of the first of them.
StartsAtTheTop ==
    /\ (pc \notin {"config", "connect", "done"} /\ pc' # "config") =>
          (backends' = backends /\ r' = r)
    /\ (trials = <<>> /\ trials' # <<>>) =>
          (trials' = <<1>> /\ u' = urlParse(backends[1]))

PrimaryOf(t) ==
    IF \E c \in 1..Len(conns) : conns[c].i = t /\ conns[c].role = "primary"
    THEN CHOOSE c \in 1..Len(conns) : conns[c].i = t /\ conns[c].role = "primary"
    ELSE 0

\* The check that dialed the connection c is still running on it.
CheckRunningOn(c) ==
    /\ pc \in {"write", "read", "handshake"}
    /\ role = "aux"
    /\ aux = c

\* A connection of a check is another connection than the primary one of
\* its backend, to the same host.
OwnConnection ==
    \A c \in 1..Len(conns) :
        conns[c].role # "primary" =>
            /\ PrimaryOf(conns[c].i) \notin {0, c}
            /\ conns[c].host = conns[PrimaryOf(conns[c].i)].host
            /\ conns[c].req \in {NoRequest, conns[PrimaryOf(conns[c].i)].req}

\* The connection of a check is closed once the check has returned.
ClosedAfterCheck ==
    \A c \in 1..Len(conns) :
        (conns[c].role # "primary" /\ ~CheckRunningOn(c)) => ~conns[c].open

\* C30: a check runs on a connection of its own through the same backend
\* to the same target, and this connection is closed once the check has
\* returned, whether it passed or failed.
C30_CheckOnOwnClosedConnection == OwnConnection /\ ClosedAfterCheck

(***************************************************************************)
(* Properties of the inbound request                                       *)
(***************************************************************************)

\* The headers of a request but Proxy-Authorization.
OtherHeaders(req) ==
    [n \in (DOMAIN req.Header) \ {"Proxy-Authorization"} |-> req.Header[n]]

\* Every CONNECT written to a backend is for the target of the inbound
\* request and has its headers, Proxy-Authorization apart.
OutgoingFromInbound ==
    \A c \in 1..Len(conns) :
        conns[c].req # NoRequest =>
            /\ conns[c].req.Method = "CONNECT"
            /\ conns[c].req.Host = r.Host
            /\ OtherHeaders(conns[c].req) = OtherHeaders(r)

\* C31: no step of the handling of a request changes the request (its
\* method, its target, its headers with its own Proxy-Authorization), and
\* after every step each CONNECT written to a backend names the target of
\* the request and has the headers of the request other than
\* Proxy-Authorization.
C31_RequestNotMutated ==
    [][/\ pc \notin {"config", "done"} => r' = r
       /\ OutgoingFromInbound']_vars

\* C31 witness: two backends with credentials were tried; the CONNECT to
\* each had the credentials of the backend for its Proxy-Authorization,
\* and the request still has its own.
C31_Witness ==
    /\ pc = "done"
    /\ Authorization = AuthFoo
    /\ Len(events) = 2
    /\ Len(conns) = 2
    /\ HeaderGet(conns[1].req.Header, "Proxy-Authorization") = BasicUP
    /\ HeaderGet(conns[2].req.Header, "Proxy-Authorization") = BasicUP
    /\ conns[2].req.Header["User-Agent"] = r.Header["User-Agent"]

\* The request is being handled or was handled.
Arrived == r # NoRequest

\* C32 (as it was stated): the body of a CONNECT request is read to its
\* end and closed exactly once before the first trial, whatever comes of
\* the request.
C32_BodyDrainedAndClosedOnce ==
    (Arrived /\ r.Method = "CONNECT") =>
        /\ bodyClosed = 1
        /\ body.unread = 0

\* C32 (as amended): the body of a request is closed exactly once, before
\* the backends are resolved and so before the first trial, whatever comes
\* of the request; nothing is read from it after that, and no trial
\* changes it.
C32_BodyClosedOnce ==
    [][/\ Arrived' => bodyClosed' = 1
       /\ ~Arrived' => (bodyClosed' = 0 /\ trials' = <<>>)
       /\ (Arrived /\ Arrived') => body' = body]_vars

\* C32 witness: a request came with a body, its body was closed with the
\* body unread, and its only backend was tried and failed.
C32_Witness ==
    /\ pc = "done"
    /\ r.Method = "CONNECT"
    /\ body = [len |-> MaxBody, unread |-> MaxBody]
    /\ bodyClosed = 1
    /\ Len(events) = 1
    /\ w.code = StatusServiceUnavailable

(***************************************************************************)
(* Properties of a client connection that cannot be taken over             *)
(***************************************************************************)

\* C33 (as it was stated): when the ResponseWriter is no Hijacker the
\* request is answered 502 with no backend dialed and no event.
C33_NoTakeoverFailsBeforeTrials ==
    hijack = "unsupported" =>
        /\ w.code = StatusBadGateway
        /\ conns = <<>>
        /\ events = <<>>

\* C33 (as amended): that the ResponseWriter is no Hijacker shows only
\* after a backend was accepted: the request is then answered 502 and
\* over, with no tunnel; the trials before have run and have their events
\* with their errors, the accepted backend was dialed, has answered 2xx
\* and has its event without an error. 502 is answered in no other way
\* than after an accepted backend.
C33_NoTakeoverFailsAfterAcceptance ==
    /\ hijack = "unsupported" =>
          /\ pc = "done"
          /\ w.code = StatusBadGateway
          /\ outbound.state = "none"
          /\ up.pc = "idle"
          /\ Len(events) = Len(trials)
          /\ events # <<>>
          /\ events[Len(events)].err = NoError
          /\ \A k \in 1..(Len(events) - 1) : events[k].err # NoError
          /\ inbound \in 1..Len(conns)
          /\ conns[inbound].i = LastTrial
          /\ Is2xx(conns[inbound].status)
    /\ w.code = StatusBadGateway =>
          (hijack \in {"unsupported", "failed"} /\ Accepted)

\* C33 witness: the first backend failed, the second was accepted, and
\* only then the request was answered 502 for want of a Hijacker.
C33_Witness ==
    /\ hijack = "unsupported"
    /\ w.code = StatusBadGateway
    /\ Len(events) = 2
    /\ events[1].err # NoError
    /\ events[2].err = NoError
    /\ Len(conns) >= 1

(***************************************************************************)
(* Properties of an expansion that fails                                   *)
(***************************************************************************)

\* C34: a backend whose expansion fails is left out and nothing else
\* comes of it: with {foo}B1, {bar}B2 and {foo}{bar}B3 and a request that
\* offers bar and a value of foo that is not valid UTF-8, the request is
\* not answered 400, its backends are B2 alone, B2 is tried, and the
\* request ends accepted or with 503 after the one event of B2.
C34_FailedExpansionIsSkipped ==
    Tagged(AuthBarFooBad) =>
        /\ w.code # StatusBadRequest
        /\ backends = <<B2>>
        /\ IsPrefix(EventBackends, <<B2>>)
        /\ pc = "done" => (EventBackends = <<B2>> /\ (Accepted \/ w.code = StatusServiceUnavailable) )

\* C34 witness: the expansions of {foo}B1 and {foo}{bar}B3 failed, and the
\* tunnel through B2 is up.
C34_Witness ==
    /\ Tagged(AuthBarFooBad)
    /\ pc = "pipe"
    /\ EventBackends = <<B2>>
    /\ Accepted

(***************************************************************************)
(* Properties of the parameters of a request                               *)
(***************************************************************************)

\* The values of the pools that are Basic with a payload in base64.
BasicAuths == (AuthPool \cup TagAuthPool) \ {AuthBearer, AuthMalformed}

\* A map of one name, and of two.
One(k, v) == [n \in {k} |-> v]
Two(k, v, j, x) == [n \in {k, j} |-> IF n = k THEN v ELSE x]

\* The parameters of the values of BasicAuths, read off their payloads:
\* the pairs before the first ':', a pair cut at its first '='.
ExpectedValues(a) ==
    CASE a = AuthFoo -> One(NameFoo, <<>>)
      [] a = AuthBarFooX -> Two(NameBar, <<>>, NameFoo, Str("x"))
      [] a = AuthBar -> One(NameBar, <<>>)
      [] a = AuthFooBar -> Two(NameFoo, <<>>, NameBar, <<>>)
      [] a = AuthFooSlash -> One(NameFoo, Str("a/b"))
      [] a = AuthBarFooBad -> Two(NameBar, <<>>, NameFoo, <<255>>)
      [] a = AuthFooEq -> One(NameFoo, Str("a=b"))

\* C35: the parameters of a request with a Basic Proxy-Authorization in
\* base64 are the pairs of the payload before its first ':', which are
\* apart at ',': a pair with '=' gives the name before its first '=' the
\* value after it, a pair without gives its name the empty value; nothing
\* after the ':' is a name or a value. With templates enabled the backends
\* of the request follow from these parameters: for foo=a=b:bar=1,baz it
\* is {foo}B1 alone, with a=b escaped in the place of {foo}.
C35_ParamsFromUsernameOnly ==
    /\ (Arrived /\ Authorization \in BasicAuths) =>
          Params(r.Header) = [err |-> FALSE,
                              values |-> ExpectedValues(Authorization)]
    /\ Tagged(AuthFooEq) =>
          (w.code # StatusBadRequest /\ backends = <<Str("a%3Db") \o B1>>)

\* C35 witness: the request with foo=a=b:bar=1,baz had {foo}B1 alone in
\* trial, as a%3Dbhttp://a:1.
C35_Witness ==
    /\ Tagged(AuthFooEq)
    /\ pc = "done"
    /\ EventBackends = <<Str("a%3Dbhttp://a:1")>>

(***************************************************************************)
(* Properties of the connections of the trials that failed                 *)
(***************************************************************************)

\* C36: a connection to a backend is open only while the trial that
\* dialed it is under way, or as the primary connection of the accepted
\* backend: the connections of a trial that failed are closed before the
\* next trial starts and when the request is over.
C36_RejectedConnectionsClosed ==
    \A c \in 1..Len(conns) :
        conns[c].open =>
            \/ InTrial /\ pc # "callback" /\ conns[c].i = LastTrial
            \/ pc = "callback" /\ err = NoError /\ c = inbound
            \/ Accepted /\ c = inbound

(***************************************************************************)
(* Properties of the event of the accepted backend                         *)
(***************************************************************************)

\* The step reports a trial without an error.
ReportsSuccess ==
    /\ Len(events') = Len(events) + 1
    /\ events'[Len(events')].err = NoError

\* C37: the event without an error is reported before the takeover of
\* the client connection is tried and before anything of the response is
\* written to the client; the takeover and the response come only after
\* such an event; and after it the request may still be answered 502.
C37_SuccessEventBeforeTakeover ==
    [][/\ ReportsSuccess =>
             /\ hijack = "none" /\ hijack' = "none"
             /\ outbound.state = "none" /\ outbound'.state = "none"
             /\ outbound'.written = <<>>
             /\ w'.code = 0
             /\ pc' = "hijack"
       /\ (hijack' # "none" \/ outbound'.written # <<>>) => Accepted'
       /\ (hijack = "none" /\ hijack' # "none") => Accepted]_vars

\* C37 witness: the backend was reported without an error, the takeover
\* failed, and the request was answered 502 with no tunnel.
C37_Witness ==
    /\ pc = "done"
    /\ Accepted
    /\ hijack = "failed"
    /\ w.code = StatusBadGateway
    /\ outbound.state = "none"

(***************************************************************************)
(* Properties of the timeout and the tunnel                                *)
(***************************************************************************)

\* The step closes a primary connection.
ClosesPrimary ==
    \E c \in 1..Len(conns) :
        /\ c <= Len(conns')
        /\ conns[c].role = "primary"
        /\ conns[c].open
        /\ ~conns'[c].open

\* C38: the context of a trial, with its deadline, is gone when the
\* trial is over, and neither its end nor the passing of its deadline
\* closes a connection or moves a copy of pipe: the primary connection of
\* a backend is closed by the copy of pipe from the client alone, and a
\* copy of pipe ends only after the client or the backend has closed.
C38_TimeoutLeavesTunnelAlone ==
    [][/\ ctx' # ctx =>
             (~ClosesPrimary /\ up' = up /\ down' = down /\ outbound' = outbound)
       /\ TakenOn' => ctx' = "none"
       /\ ClosesPrimary => (pc = "pipe" /\ up.pc = "close" /\ up'.pc = "returned")
       /\ (up'.pc \in {"close", "returned"} \/ down'.pc \in {"close", "returned"})
             => (client'.closed \/ backend'.closed)]_vars

\* C38 witness: a Proxy with a timeout has a tunnel up: the context of
\* the trial is gone, both copies are at work, and the connection to the
\* backend is open.
C38_Witness ==
    /\ p.Timeout # 0
    /\ pc = "pipe"
    /\ ctx = "none"
    /\ up.pc = "read"
    /\ down.pc = "read"
    /\ conns[inbound].open
    /\ outbound.state = "open"

(***************************************************************************)
(* Properties of the CONNECT of the TLS handshake check                    *)
(***************************************************************************)

\* The last trial is over, its primary connection was answered 2xx, the
\* TLS handshake check is configured and did not get to its handshake.
CheckFellShort ==
    /\ TrialOver
    /\ p.TLSHandshake
    /\ PrimaryOf(LastTrial) # 0
    /\ Is2xx(conns[PrimaryOf(LastTrial)].status)
    /\ handshake = "none"

\* The error the connection c of the check accounts for: that of its
\* write, of its read, or of its status.
ErrorOn(c) ==
    IF conns[c].req = NoRequest THEN ErrOf("write")
    ELSE IF conns[c].status = 0 THEN ErrOf("read")
    ELSE unsuccessfulStatusError(conns[c].status)

\* C39: the TLS handshake check dials the backend again and writes its
\* own CONNECT; the handshake is tried only after that CONNECT was
\* answered 2xx; and when the check's dial, write or read fails or the
\* answer is another status, the trial ends with that very error and the
\* backend is not accepted, its 2xx on the primary connection
\* notwithstanding.
C39_CheckConnectFailureRejects ==
    /\ \A c \in 1..Len(conns) :
          conns[c].role = "aux" =>
              /\ conns[c].req \in {NoRequest, conns[PrimaryOf(conns[c].i)].req}
              /\ (conns[c].i = LastTrial /\ handshake # "none") =>
                     Is2xx(conns[c].status)
    /\ CheckFellShort =>
          /\ pc # "hijack"
          /\ LastError # NoError
          /\ IF CheckConns(LastTrial) = {}
             THEN LastError.kind \in {"dial", "timeout"}
             ELSE \A c \in CheckConns(LastTrial) :
                     /\ ~Is2xx(conns[c].status)
                     /\ LastError = ErrorOn(c)

\* C39 witness: the backend answered 200 on the primary connection and
\* 300 to the CONNECT of the check; its event has the status error of
\* 300, and the request ended with 503.
C39_Witness ==
    /\ pc = "done"
    /\ w.code = StatusServiceUnavailable
    /\ Len(conns) = 2
    /\ conns[1].role = "primary" /\ conns[1].status = 200
    /\ conns[2].role = "aux" /\ conns[2].status = 300
    /\ events = <<[b |-> backends[1], err |-> unsuccessfulStatusError(300)]>>

====
